---- MODULE Spec2Model ----
(***************************************************************************)
(* Model of the job execution pipeline of the image-generation gateway:    *)
(* the limiter scripts (src/services/limiter.lua.ts), their callers        *)
(* (src/services/limiter.service.ts), the credential pool (keypool         *)
(* service), the job rows (job.service), the intake controller and the     *)
(* generate worker.                                                        *)
(*                                                                         *)
(* Time is counted in ticks of the variable clock.  Durations of the       *)
(* program (the 60 s window, the 10 min cooldown, the 1 h failure-counter  *)
(* TTL) are scaled to a few ticks; their order is kept.                    *)
(***************************************************************************)
EXTENDS Integers, Sequences, FiniteSets, TLC

\* ------------------------------------------------------------------ bounds
MaxTime == 4
WindowTicks == 2
MaxLimit == 2
NumCallers == 2
NumKeys == 1
CooldownTicks == 2
FailureTtlTicks == 3
InflightTtlTicks == 6
MaxJobs == 1
MaxEntries == 2
NumRequests == 2
NumTenants == 1
MaxImages == 2
MaxLaterJobs == 1
MaxHooks == 2
MaxSecretLen == 3
\* the block size of the hash of the HMAC, in bytes (64 for SHA-256)
BlockSize == 2
\* the TTL left, at time 0, of the counters a crashed worker has incremented
LeakTtlLeft == 2

\* failureThreshold default of checkKeyHealth and threshold of markKeyFailure
FailureThreshold == 5
\* maxAttempts default of createJob and of the Job table
DefaultMaxAttempts == 4
\* attempts option of generateQueue.add
QueueAttempts == 4
\* attempts option of webhookQueue.add
WebhookAttempts == 8
\* acquireRpm(key, limit, 60): the window of the rate limits, in seconds
RpmWindowSec == 60
\* backoff: { type: 'exponential', delay: 2000 }, in seconds
BackoffDelaySec == 2

Times == 0..MaxTime
Callers == 1..NumCallers
ProviderKeys == 1..NumKeys
Endpoints == {"official", "yunwu"}
Tenants == 1..NumTenants
Entries == 1..MaxEntries
Requests == 1..NumRequests

\* the limiter keys: lim:global:*, lim:key:{id}:*, lim:tenant:{id}:*
GlobalScope == <<"global", 0>>
KeyScope(k) == <<"key", k>>
TenantScope(t) == <<"tenant", t>>
Scopes == {GlobalScope} \cup {KeyScope(k) : k \in ProviderKeys}
            \cup {TenantScope(t) : t \in Tenants}

VARIABLES
  clock,      \* the wall clock every Date.now() reads
  zset,       \* the sorted set of each limiter key: score -> number of members
  rpmLimit,   \* the limit of the key the callers of acquireRpm contend for
  callPc,     \* acquireRpm call of each caller: "idle" | "evalsha"
  callNow,    \* the Date.now() value the call read before EVALSHA
  admitLog    \* history: clock value -> number of calls admitted at it

rpmVars == <<zset, rpmLimit, callPc, callNow, admitLog>>

VARIABLES
  keyRow,       \* ProviderKey rows: set out of band, read by pickProviderKey
  epStats,      \* store keys ep:{provider}:{endpoint}:failures / :successes
  scripts,      \* the digests limiter.service caches, the scripts the store holds,
                \* and history: the limiter call just made and whether it threw
  kpCooldown,   \* store key kp:{id}:cooldown_until : [v, px]
  kpFailures,   \* store key kp:{id}:failures : [v, px]
  lastPick,     \* history: result and time of the pickProviderKey call just made
  consec,       \* history: markKeyFailure calls since the last markKeySuccess
  expectedUntil,\* history: call time + cooldown of the fifth such call
  counted,      \* history: failures counted outside cooldown, within the TTL
  lastFailAt,   \* history: time of the last counted failure
  countedUntil  \* history: cooldown_until set by the fifth counted failure

storeHealthVars == <<kpCooldown, kpFailures>>
histHealthVars == <<lastPick, consec, expectedUntil, counted, lastFailAt, countedUntil>>
healthVars == <<keyRow, epStats, scripts, storeHealthVars, histHealthVars>>

VARIABLES
  config,       \* config.rateLimits: globalRpm, globalConcurrency
  tenantRow,    \* Tenant rows: planRpm, planConcurrency, webhookEnabled
  inflight,     \* the concurrency counter of each limiter key: [v, px]
  jobs,         \* Job rows, in creation order (the id is the index)
  fresh,        \* ids of the rows created less than 1000 ms ago
  queue,        \* entries of the generate queue: [jobId, attemptsMade, state]
  run,          \* the processor invocation of each queue entry
  reqPc,        \* POST /v1/images/generate requests: "idle" | "create"
  reqArg,       \* tenant and idempotency key of the request
  resp,         \* history: the response of the request just served
  cancelPc,     \* DELETE /v1/jobs/{id} requests: 0, or the id read as cancelable
  cancelResp,   \* the answer to the last DELETE /v1/jobs/{id}
  getResp,      \* the answer to the last GET /v1/jobs/{id}
  cache,        \* the request cache: entries [key, images]
  webhooks      \* the 'send' entries of the webhook queue, in the order added

deployVars == <<config, tenantRow>>
intakeVars == <<reqPc, reqArg, resp, cancelPc, cancelResp, getResp>>
execVars == <<inflight, jobs, fresh, queue, run, cache, webhooks>>

vars == <<clock, rpmVars, healthVars, deployVars, intakeVars, execVars>>

\* ------------------------------------------------------- helper operators
RECURSIVE SumUpTo(_, _)
\* sum of f[0..n]
SumUpTo(f, n) ==
  IF n < 0 THEN 0 ELSE f[n] + SumUpTo(f, n - 1)

\* sum of f over lo..hi (clipped to the domain of f)
SumRange(f, lo, hi) ==
  SumUpTo(f, hi) - SumUpTo(f, (IF lo < 0 THEN 0 ELSE lo) - 1)

EmptyZset == [t \in Times |-> 0]

InitCallersIdle ==
  /\ callPc = [w \in Callers |-> "idle"]
  /\ callNow = [w \in Callers |-> 0]
  /\ admitLog = [t \in Times |-> 0]

InitRpmIdle ==
  /\ zset = [s \in Scopes |-> EmptyZset]
  /\ InitCallersIdle

\* ZCARD
ZCARD(z) == SumUpTo(z, MaxTime)

\* ZREMRANGEBYSCORE key 0 max : both ends inclusive
ZREMRANGEBYSCORE(z, max) == [t \in Times |-> IF t <= max THEN 0 ELSE z[t]]

\* ZADD of a fresh member with the given score
ZADD(z, score) == [z EXCEPT ![score] = @ + 1]

\* ---------------------------------------------------- LUA_SLIDING_WINDOW
LUA_SLIDING_WINDOW(z, nowArg, window, limit) ==
  LET trimmed == ZREMRANGEBYSCORE(z, nowArg - window)
      count   == ZCARD(trimmed)
  IN  IF count >= limit
        THEN [ok |-> FALSE, count |-> count, zset |-> trimmed]
        ELSE [ok |-> TRUE, count |-> count + 1, zset |-> ZADD(trimmed, nowArg)]


\* ------------------------------------------------------ store entries
\* a store key with a value and an expiry time (PX / PEXPIRE)
Absent == [v |-> 0, px |-> 0]

\* GET: the value, or 0 when the key does not exist or has expired
GET(entry) == IF clock < entry.px THEN entry.v ELSE 0

\* expired keys disappear when the clock advances
ExpireAt(entry, t) == IF entry.px <= t THEN Absent ELSE entry

\* --------------------------------------------------------- LUA_KEY_HEALTH
\* variant: the cooldown starts one failure late (failures > threshold)
LUA_KEY_HEALTH_AtThreshold(cd, fl, nowArg, cooldown_ms, threshold, should_inc, should_reset) ==
  LET cooldown_until == GET(cd)
  IN  IF cooldown_until > nowArg
        THEN [available |-> FALSE, cooldownUntil |-> cooldown_until, cd |-> cd, fl |-> fl]
      ELSE IF should_inc
        THEN LET failures == GET(fl) + 1
             IN  IF failures > threshold
                   THEN [available |-> FALSE, cooldownUntil |-> nowArg + cooldown_ms,
                         cd |-> [v |-> nowArg + cooldown_ms, px |-> clock + cooldown_ms],
                         fl |-> Absent]
                   ELSE [available |-> TRUE, cooldownUntil |-> 0, cd |-> cd,
                         fl |-> [v |-> failures, px |-> clock + FailureTtlTicks]]
      ELSE IF should_reset
        THEN [available |-> TRUE, cooldownUntil |-> 0, cd |-> cd, fl |-> Absent]
      ELSE [available |-> TRUE, cooldownUntil |-> 0, cd |-> cd, fl |-> fl]

LUA_KEY_HEALTH(cd, fl, nowArg, cooldown_ms, threshold, should_inc, should_reset) ==
  LET cooldown_until == GET(cd)
  IN  IF cooldown_until > nowArg
        THEN [available |-> FALSE, cooldownUntil |-> cooldown_until, cd |-> cd, fl |-> fl]
      ELSE IF should_inc
        THEN LET failures == GET(fl) + 1
             IN  IF failures >= threshold
                   THEN [available |-> FALSE, cooldownUntil |-> nowArg + cooldown_ms,
                         cd |-> [v |-> nowArg + cooldown_ms, px |-> clock + cooldown_ms],
                         fl |-> Absent]
                   ELSE [available |-> TRUE, cooldownUntil |-> 0, cd |-> cd,
                         fl |-> [v |-> failures, px |-> clock + FailureTtlTicks]]
      ELSE IF should_reset
        THEN [available |-> TRUE, cooldownUntil |-> 0, cd |-> cd, fl |-> Absent]
      ELSE [available |-> TRUE, cooldownUntil |-> 0, cd |-> cd, fl |-> fl]

\* checkKeyHealth(keyId, options) with now = Date.now()
checkKeyHealth(k, cooldownMs, failureThreshold, incrementFailures, resetOnSuccess) ==
  LUA_KEY_HEALTH(kpCooldown[k], kpFailures[k], clock, cooldownMs, failureThreshold,
                 incrementFailures, resetOnSuccess)

\* markKeyFailure(keyId, consecutiveFailures): the result of its checkKeyHealth
markKeyFailure(k, consecutiveFailures) ==
  IF consecutiveFailures >= FailureThreshold
    THEN checkKeyHealth(k, CooldownTicks, FailureThreshold, TRUE, FALSE)
    ELSE checkKeyHealth(k, CooldownTicks, FailureThreshold, TRUE, FALSE)

\* variant: a success leaves the failure counter as it is
markKeySuccess_KeepsCounter(k) ==
  checkKeyHealth(k, CooldownTicks, FailureThreshold, FALSE, FALSE)

\* markKeySuccess(keyId)
markKeySuccess(k) ==
  checkKeyHealth(k, CooldownTicks, FailureThreshold, FALSE, TRUE)

\* ------------------------------------------------------- pickProviderKey
\* getInFlight("kp:{id}:inflight"): no code of the repository writes this key
getInFlightKp(k) == 0

\* the endpoint counters ep:{provider}:{endpoint}:failures / :successes are
\* written only by markEndpointSuccess / markEndpointFailure, which no code of
\* the repository calls: an endpoint without counters reads as 0
epCounter(endpoint, which) ==
  IF endpoint \in DOMAIN epStats THEN epStats[endpoint][which] ELSE 0

getEndpointStats(endpoint) ==
  LET failures  == epCounter(endpoint, "failures")
      successes == epCounter(endpoint, "successes")
      total     == failures + successes
  IN  [failures |-> failures, successes |-> successes, total |-> total,
       failureRate |-> IF total > 0 THEN (failures * 100) \div total ELSE 0,
       healthScore |-> IF total > 0 THEN (successes * 100) \div total ELSE 100]

\* preferredModels of the endpoint registry
isEndpointPreferredForModel(endpoint, model) ==
  endpoint = "yunwu" /\ model = "gemini-3-pro-image-preview"

\* variant: a higher priority number is better
CompareCandidates_HigherPriorityFirst(a, b) ==
  IF a.isModelPreferred # b.isModelPreferred
    THEN (IF a.isModelPreferred THEN -1 ELSE 1)
  ELSE IF a.isPreferred # b.isPreferred
    THEN (IF a.isPreferred THEN -1 ELSE 1)
  ELSE IF a.priority # b.priority
    THEN b.priority - a.priority
  ELSE LET healthDiff == b.healthScore - a.healthScore
       IN  IF healthDiff > 10 THEN 1
           ELSE IF healthDiff < -10 THEN -1
           ELSE IF a.inFlight - b.inFlight # 0 THEN a.inFlight - b.inFlight
           ELSE a.failureRate - b.failureRate

\* the comparator of candidates.sort
CompareCandidates(a, b) ==
  IF a.isModelPreferred # b.isModelPreferred
    THEN (IF a.isModelPreferred THEN -1 ELSE 1)
  ELSE IF a.isPreferred # b.isPreferred
    THEN (IF a.isPreferred THEN -1 ELSE 1)
  ELSE IF a.priority # b.priority
    THEN a.priority - b.priority
  ELSE LET healthDiff == b.healthScore - a.healthScore
       IN  IF healthDiff > 10 THEN 1
           ELSE IF healthDiff < -10 THEN -1
           ELSE IF a.inFlight - b.inFlight # 0 THEN a.inFlight - b.inFlight
           ELSE a.failureRate - b.failureRate

RECURSIVE InsertSorted(_, _)
\* stable insertion of x into a sorted sequence
InsertSorted(sorted, x) ==
  IF sorted = <<>> THEN <<x>>
  ELSE IF CompareCandidates(x, Head(sorted)) < 0
    THEN <<x>> \o sorted
    ELSE <<Head(sorted)>> \o InsertSorted(Tail(sorted), x)

RECURSIVE SortCandidates(_)
SortCandidates(cands) ==
  IF cands = <<>> THEN <<>>
  ELSE InsertSorted(SortCandidates(SubSeq(cands, 1, Len(cands) - 1)), cands[Len(cands)])

\* rows of findMany ordered by priority asc, createdAt asc (ids are in creation order)
RECURSIVE OrderedRows(_)
OrderedRows(ks) ==
  IF ks = {} THEN <<>>
  ELSE LET first == CHOOSE k \in ks : \A o \in ks :
                       \/ keyRow[k].priority < keyRow[o].priority
                       \/ (keyRow[k].priority = keyRow[o].priority /\ k <= o)
       IN  <<first>> \o OrderedRows(ks \ {first})

\* the where clause: enabled, endpoint restriction, excluded endpoints
MatchesWhere(k, preferredEndpoint, allowFallback, excludeEndpoints) ==
  /\ keyRow[k].enabled
  /\ IF excludeEndpoints # {}
       THEN keyRow[k].endpoint \notin excludeEndpoints
       ELSE (preferredEndpoint # "none" /\ ~allowFallback)
              => keyRow[k].endpoint = preferredEndpoint

\* the health filter of pickProviderKey
IsCandidate(k) ==
  /\ checkKeyHealth(k, CooldownTicks, FailureThreshold, FALSE, FALSE).available
  /\ getInFlightKp(k) < keyRow[k].concurrencyLimit

Candidate(k, preferredEndpoint, model) ==
  [id |-> k, priority |-> keyRow[k].priority,
   healthScore |-> getEndpointStats(keyRow[k].endpoint).healthScore,
   failureRate |-> getEndpointStats(keyRow[k].endpoint).failureRate,
   inFlight |-> getInFlightKp(k),
   isPreferred |-> keyRow[k].endpoint = preferredEndpoint,
   isModelPreferred |-> IF model # "none"
                          THEN isEndpointPreferredForModel(keyRow[k].endpoint, model)
                          ELSE FALSE]

\* pickProviderKey(provider, options): the id of the chosen key, 0 for null
pickProviderKey(preferredEndpoint, allowFallback, model, excludeEndpoints) ==
  LET keys == OrderedRows({k \in DOMAIN keyRow :
                  MatchesWhere(k, preferredEndpoint, allowFallback, excludeEndpoints)})
      kept == SelectSeq(keys, IsCandidate)
      candidates == [i \in 1..Len(kept) |-> Candidate(kept[i], preferredEndpoint, model)]
  IN  IF Len(keys) = 0 THEN 0
      ELSE IF Len(candidates) = 0 THEN 0
      ELSE SortCandidates(candidates)[1].id

\* ------------------------------------------------- concurrency counters
\* a counter whose value is 0 behaves as an absent key: GET is 0, and the next
\* INCR makes it 1 and sets the TTL again
Norm(entry) == IF entry.v = 0 THEN Absent ELSE entry

\* variant: every INCR sets the TTL of the key again
LUA_CONCURRENCY_RefreshTtl(entry, limit, ttl) ==
  LET v  == GET(entry) + 1
      px == clock + ttl
  IN  IF v > limit
        THEN [ok |-> FALSE, value |-> v, entry |-> Norm([v |-> v - 1, px |-> px])]
        ELSE [ok |-> TRUE, value |-> v, entry |-> [v |-> v, px |-> px]]

LUA_CONCURRENCY(entry, limit, ttl) ==
  LET v  == GET(entry) + 1
      px == IF v = 1 THEN clock + ttl ELSE entry.px
  IN  IF v > limit
        THEN [ok |-> FALSE, value |-> v, entry |-> Norm([v |-> v - 1, px |-> px])]
        ELSE [ok |-> TRUE, value |-> v, entry |-> [v |-> v, px |-> px]]

\* variant: a negative value is not set back to 0
LUA_CONCURRENCY_RELEASE_NoClamp(entry) ==
  LET v == GET(entry) - 1
  IN  [value |-> v, entry |-> Norm([v |-> v, px |-> IF v < 0 THEN clock + 1 ELSE entry.px])]

LUA_CONCURRENCY_RELEASE(entry) ==
  LET v == GET(entry) - 1
  IN  IF v < 0
        THEN [value |-> 0, entry |-> Absent]
        ELSE [value |-> v, entry |-> Norm([v |-> v, px |-> entry.px])]

\* acquireRpm(key, limit, 60) with the script run at the caller's Date.now()
acquireRpm(scope, limit) ==
  LUA_SLIDING_WINDOW(zset[scope], clock, WindowTicks, limit)

\* acquireConcurrency(key, limit, 3600)
acquireConcurrency(scope, limit) ==
  LUA_CONCURRENCY(inflight[scope], limit, InflightTtlTicks)

\* releaseConcurrency(key)
releaseConcurrency(scope) ==
  LUA_CONCURRENCY_RELEASE(inflight[scope])

\* ------------------------------------------------------------- errors
NoErr == [msg |-> "none", kind |-> "none"]

\* new Error(message)
PlainError(message) == [msg |-> message, kind |-> "Error"]

\* an AppError with its retryable flag
AppError(message, retryable) ==
  [msg |-> message, kind |-> IF retryable THEN "AppRetryable" ELSE "AppFinal"]

\* handleGeminiError: a ProviderError, not retryable for status 400 and 401
handleGeminiError(status) ==
  IF status = 400 THEN AppError("Gemini API error (400)", FALSE)
  ELSE IF status = 401 THEN AppError("Gemini API error (401)", FALSE)
  ELSE IF status = 429 THEN AppError("Gemini API error (429)", TRUE)
  ELSE IF status = 500 THEN AppError("Gemini API error (500)", TRUE)
  ELSE AppError("Gemini API error (503)", TRUE)

\* the code handleGeminiError gives the ProviderError as its providerCode
providerCode(status) ==
  IF status = 400 THEN "INVALID_REQUEST"
  ELSE IF status = 401 THEN "INVALID_API_KEY"
  ELSE IF status = 429 THEN "RATE_LIMIT_EXCEEDED"
  ELSE IF status = 503 THEN "SERVICE_OVERLOAD"
  ELSE IF status >= 500 THEN "SERVER_ERROR"
  ELSE "GEMINI_ERROR"

\* parseGeminiResponse of a response with the given number of inline images
parseGeminiResponse(images) ==
  IF images = 0
    THEN [status |-> "FAILED", error |-> "No images generated", images |-> 0]
    ELSE [status |-> "SUCCEEDED", error |-> "none", images |-> images]

\* StorageError thrown by putImage
StorageError == AppError("Failed to store image", TRUE)

AdmissionCodes ==
  {"GLOBAL_RATE_LIMIT", "GLOBAL_CONC_LIMIT", "KEY_RATE_LIMIT", "KEY_CONC_LIMIT",
   "TENANT_RATE_LIMIT", "TENANT_CONC_LIMIT"}

\* message.includes(pattern) over the messages the model raises
MessageIncludes(message, pattern) ==
  \/ message = pattern
  \/ pattern = "NO_PROVIDER_KEY" /\ message = "NO_PROVIDER_KEY_AVAILABLE"

\* the retryable patterns of isRetryableError: of the messages raised, the
\* *_RATE_LIMIT ones match /rate.?limit/i and the 503 one matches /503/i
MatchesRetryablePattern(message) ==
  message \in {"GLOBAL_RATE_LIMIT", "KEY_RATE_LIMIT", "TENANT_RATE_LIMIT",
               "Gemini API error (503)", "Gemini API error (429)"}

\* variant: the retryable flag of an AppError is not looked at
isRetryableError_PatternOnly(error) == MatchesRetryablePattern(error.msg)

isRetryableError(error) ==
  IF error.kind = "AppRetryable" THEN TRUE
  ELSE IF error.kind = "AppFinal" THEN FALSE
  ELSE MatchesRetryablePattern(error.msg)

getErrorMessage(error) == error.msg

\* getErrorCode of the generate worker
getErrorCode(message) ==
  IF MessageIncludes(message, "GLOBAL_RATE_LIMIT") THEN "GLOBAL_RATE_LIMIT"
  ELSE IF MessageIncludes(message, "GLOBAL_CONC_LIMIT") THEN "GLOBAL_CONC_LIMIT"
  ELSE IF MessageIncludes(message, "KEY_RATE_LIMIT") THEN "KEY_RATE_LIMIT"
  ELSE IF MessageIncludes(message, "KEY_CONC_LIMIT") THEN "KEY_CONC_LIMIT"
  ELSE IF MessageIncludes(message, "TENANT_RATE_LIMIT") THEN "TENANT_RATE_LIMIT"
  ELSE IF MessageIncludes(message, "TENANT_CONC_LIMIT") THEN "TENANT_CONC_LIMIT"
  ELSE IF MessageIncludes(message, "NO_PROVIDER_KEY") THEN "NO_PROVIDER_KEY"
  ELSE IF MessageIncludes(message, "GEMINI") THEN "PROVIDER_ERROR"
  ELSE "UNKNOWN_ERROR"

\* the list of codes the catch block of the worker treats as retryable
RetryableCodes ==
  AdmissionCodes \cup {"NO_PROVIDER_KEY_AVAILABLE"}

\* retryable, as the catch block computes it
CatchRetryable(error) ==
  isRetryableError(error) \/ getErrorCode(getErrorMessage(error)) \in RetryableCodes

\* ------------------------------------------------------------ job rows
IdempotencyKeys == {"none", "k1"}
Terminal == {"SUCCEEDED", "FAILED", "CANCELED"}

\* the body of the submissions: mode final, a prompt of 12 characters
BodyMode == "final"
BodyPromptLength == 12

\* the row prisma.job.create inserts; a prompt is told by its length
NewJob(tenantId, idempotencyKey) ==
  [tenantId |-> tenantId, idempotencyKey |-> idempotencyKey, status |-> "QUEUED",
   attempts |-> 0, maxAttempts |-> DefaultMaxAttempts, errorCode |-> "none",
   errorMessage |-> "none", resultUrls |-> <<>>, providerKeyId |-> 0,
   mode |-> BodyMode, promptLength |-> BodyPromptLength]

JobIds == 1..Len(jobs)

\* findUnique by tenantId_idempotencyKey: the id of the row, 0 for null
FindByIdempotencyKey(tenantId, idempotencyKey) ==
  IF \E j \in JobIds : /\ jobs[j].tenantId = tenantId
                       /\ jobs[j].idempotencyKey = idempotencyKey
    THEN CHOOSE j \in JobIds : /\ jobs[j].tenantId = tenantId
                               /\ jobs[j].idempotencyKey = idempotencyKey
    ELSE 0

\* the unique index Job_idempotencyKey_key; rows without a key never collide
UniqueViolation(idempotencyKey) ==
  /\ idempotencyKey # "none"
  /\ \E j \in JobIds : jobs[j].idempotencyKey = idempotencyKey

markJobRunning(row, providerKeyId) ==
  [row EXCEPT !.status = "RUNNING", !.providerKeyId = providerKeyId]

markJobSucceeded(row, resultUrls) ==
  [row EXCEPT !.status = "SUCCEEDED", !.resultUrls = resultUrls,
              !.errorCode = "none", !.errorMessage = "none"]

\* appendJobResultUrl: the update writes the list read by findUnique with the
\* url added at its end
appendJobResultUrl(row, currentUrls, url) ==
  [row EXCEPT !.resultUrls = Append(currentUrls, url)]

\* markJobFailed: the read of the row and its update taken as one step
markJobFailed(row, errorCode, errorMessage, retryable) ==
  LET nextAttempts == row.attempts + 1
      shouldRetry  == retryable /\ nextAttempts < row.maxAttempts
  IN  [row EXCEPT !.status = IF shouldRetry THEN "RETRYING" ELSE "FAILED",
                  !.attempts = nextAttempts,
                  !.errorCode = errorCode, !.errorMessage = errorMessage]

\* ------------------------------------------------------- request cache
\* generateCacheKey(prompt, model, ...): the hash of its arguments
generateCacheKey(promptPart, model) == <<promptPart, model>>

\* a prompt of the given length, as a string
Prompt(promptLength) == <<"text", promptLength, "none">>

\* calculatePromptHash(prompt, model, ...): a hex string
calculatePromptHash(promptLength, model) == <<"sha256", promptLength, model>>

\* the key checkCache reads: generateCacheKey(prompt, undefined, ...)
CacheReadKey(promptLength) == generateCacheKey(Prompt(promptLength), "none")

\* the key cacheResult writes: generateCacheKey(result.promptHash, result.model,
\* ...), with the promptHash and the model saveToCache has put in the result
CacheWriteKey(promptLength) ==
  generateCacheKey(calculatePromptHash(promptLength, "gemini"), "gemini")

\* variant: the cache is used for every prompt of 10 characters or more
shouldUseCache_AnyMode(mode, promptLength) == promptLength >= 10

\* shouldUseCache: not for draft mode, not for prompts shorter than 10
shouldUseCache(mode, promptLength) == mode # "draft" /\ promptLength >= 10

\* getCachedResult: the images stored under the key, <<>> for null
getCachedResult(cacheKey) ==
  IF \E c \in cache : c.key = cacheKey
    THEN (CHOOSE c \in cache : c.key = cacheKey).images
    ELSE <<>>

\* checkCache: the cached urls, <<>> for null
checkCache(promptLength, mode) ==
  IF ~shouldUseCache(mode, promptLength) THEN <<>>
  ELSE getCachedResult(CacheReadKey(promptLength))

\* saveToCache: the cache after redis.set under the key of cacheResult
saveToCache(promptLength, images, mode) ==
  IF ~shouldUseCache(mode, promptLength) \/ Len(images) = 0 THEN cache
  ELSE {c \in cache : c.key # CacheWriteKey(promptLength)}
         \cup {[key |-> CacheWriteKey(promptLength), images |-> images]}

\* ---------------------------------------------------- processor invocations
NoMark == [status |-> "none", attempts |-> 0, code |-> "none", msg |-> "none"]
NoJob == [status |-> "none"]

\* trace: the limiter calls of the invocation, in order
IdleRun ==
  [pc |-> "idle", dbJob |-> NoJob, key |-> 0, keyConcKey |-> 0, err |-> NoErr,
   images |-> 0, pending |-> {}, reads |-> {}, urls |-> <<>>, thrown |-> FALSE,
   mark |-> NoMark, trace |-> <<>>, cacheHit |-> FALSE]

Rpm(scopeName, ok) == [op |-> "rpm", scope |-> scopeName, ok |-> ok]
Conc(scopeName, ok) == [op |-> "conc", scope |-> scopeName, ok |-> ok]
Release(scopeName) == [op |-> "release", scope |-> scopeName, ok |-> TRUE]

\* a plan gives the limit of the global scope, of every key, of every tenant
Plans == [global : 1..MaxLimit, key : 1..MaxLimit, tenant : 1..MaxLimit]

\* webhook secrets: non-empty strings, told by their bytes
Bytes == {0, 1}
Secrets == UNION {[1..n -> Bytes] : n \in 1..MaxSecretLen}
DefaultSecret == <<1>>

InitDeploy(rpm, conc) ==
  /\ config = [globalRpm |-> rpm.global, globalConcurrency |-> conc.global]
  /\ tenantRow = [t \in Tenants |->
                    [planRpm |-> rpm.tenant, planConcurrency |-> conc.tenant,
                     webhookEnabled |-> TRUE, webhookSecret |-> DefaultSecret]]

\* the values the API key of a provider key row can have
ApiKeys == {"AIza-A", "AIza-B"}

KeyRowsOf(rpm, conc) ==
  [k \in ProviderKeys |->
     [enabled |-> TRUE, priority |-> IF k = 1 THEN 2 ELSE 1, rpmLimit |-> rpm.key,
      concurrencyLimit |-> conc.key, endpoint |-> IF k = 1 THEN "official" ELSE "yunwu",
      encryptedKey |-> "AIza-A"]]

UnitPlan == [global |-> 1, key |-> 1, tenant |-> 1]

\* no DELETE has been answered
NoAnswer == [status |-> 0, error |-> "none", jobId |-> 0]

\* no GET has been answered
NoPoll ==
  [status |-> 0, jobId |-> 0, jobStatus |-> "none", resultUrls |-> <<>>,
   error |-> "null", message |-> "null"]

InitIntakeIdle ==
  /\ reqPc = [r \in Requests |-> "idle"]
  /\ reqArg = [r \in Requests |-> [tenantId |-> 1, idempotencyKey |-> "none"]]
  /\ resp = [r \in Requests |-> [status |-> 0, jobId |-> 0]]
  /\ cancelPc = 0
  /\ cancelResp = NoAnswer
  /\ getResp = NoPoll

InitWorkersIdle ==
  /\ run = [e \in Entries |-> IdleRun]
  /\ cache = {}
  /\ webhooks = <<>>

InitExecIdle ==
  /\ inflight = [s \in Scopes |-> Absent]
  /\ jobs = <<>>
  /\ fresh = {}
  /\ queue = <<>>
  /\ InitIntakeIdle
  /\ InitWorkersIdle

\* ------------------------------------------- credential health, call by call
NoPick == [made |-> FALSE, key |-> 0, at |-> 0]

\* a deadline that has passed is forgotten
Pending(t, at) == IF t <= at THEN 0 ELSE t

\* a process calls markKeyFailure(k, n)
MarkKeyFailure(k, n) ==
  LET r == markKeyFailure(k, n)
      c == counted[k] + 1
  IN  /\ kpCooldown' = [kpCooldown EXCEPT ![k] = r.cd]
      /\ kpFailures' = [kpFailures EXCEPT ![k] = r.fl]
      /\ consec' = [consec EXCEPT ![k] = IF @ < FailureThreshold THEN @ + 1 ELSE @]
      /\ expectedUntil' = IF consec[k] + 1 = FailureThreshold
                            THEN [expectedUntil EXCEPT ![k] = clock + CooldownTicks]
                            ELSE expectedUntil
      /\ IF countedUntil[k] > clock
           THEN UNCHANGED <<counted, lastFailAt, countedUntil>>
           ELSE /\ counted' = [counted EXCEPT ![k] = IF c = FailureThreshold THEN 0 ELSE c]
                /\ lastFailAt' = [lastFailAt EXCEPT ![k] = IF c = FailureThreshold THEN 0 ELSE clock]
                /\ countedUntil' = IF c = FailureThreshold
                                     THEN [countedUntil EXCEPT ![k] = clock + CooldownTicks]
                                     ELSE countedUntil
      /\ lastPick' = NoPick
      /\ UNCHANGED <<clock, rpmVars, keyRow, epStats, scripts, deployVars, intakeVars, execVars>>

\* a process calls markKeySuccess(k)
MarkKeySuccess(k) ==
  LET r == markKeySuccess(k)
  IN  /\ kpCooldown' = [kpCooldown EXCEPT ![k] = r.cd]
      /\ kpFailures' = [kpFailures EXCEPT ![k] = r.fl]
      /\ consec' = [consec EXCEPT ![k] = 0]
      /\ expectedUntil' = [expectedUntil EXCEPT ![k] = 0]
      /\ counted' = [counted EXCEPT ![k] = 0]
      /\ lastFailAt' = [lastFailAt EXCEPT ![k] = 0]
      /\ lastPick' = NoPick
      /\ UNCHANGED <<clock, rpmVars, keyRow, epStats, scripts, countedUntil, deployVars, intakeVars, execVars>>

\* a process calls pickProviderKey('gemini')
PickProviderKey ==
  /\ lastPick' = [made |-> TRUE, key |-> pickProviderKey("none", TRUE, "none", {}),
                  at |-> clock]
  /\ UNCHANGED <<clock, rpmVars, keyRow, epStats, scripts, storeHealthVars, consec, expectedUntil,
                 counted, lastFailAt, countedUntil, deployVars, intakeVars, execVars>>

\* ------------------------------------------- the scripts, loaded by digest
\* the four scripts of limiter.lua
ScriptNames == {"LUA_SLIDING_WINDOW", "LUA_CONCURRENCY", "LUA_CONCURRENCY_RELEASE",
                "LUA_KEY_HEALTH"}

\* no digest is cached, the store holds no script, no call was made
NoScripts ==
  [sha |-> {}, loaded |-> {}, op |-> "none", threw |-> FALSE, ok |-> FALSE, at |-> 0]

\* ensureLoaded: SCRIPT LOAD of every script whose digest variable is null
ensureLoaded(sc) ==
  [sc EXCEPT !.sha = ScriptNames, !.loaded = @ \cup (ScriptNames \ sc.sha)]

\* redis.evalsha(sha, ...) runs the script the store holds under the digest
\* and is rejected with NOSCRIPT when it holds none
evalshaRuns(sc, name) == name \in sc.loaded

\* what a limiter call leaves in the history: whether it threw, the ok (or
\* available) of its result, and the time of the call
Called(sc, op, name, ok) ==
  [sc EXCEPT !.op = op, !.threw = ~evalshaRuns(sc, name),
             !.ok = evalshaRuns(sc, name) /\ ok, !.at = clock]

ScriptFrame ==
  <<clock, rpmLimit, callPc, callNow, keyRow, epStats, histHealthVars,
    deployVars, intakeVars, jobs, fresh, queue, run, cache, webhooks>>

\* a process calls acquireRpm(key, limit)
CallAcquireRpm(s, limit) ==
  LET sc == ensureLoaded(scripts)
      r  == acquireRpm(s, limit)
  IN  /\ scripts' = Called(sc, "acquireRpm", "LUA_SLIDING_WINDOW", r.ok)
      /\ zset' = IF evalshaRuns(sc, "LUA_SLIDING_WINDOW")
                   THEN [zset EXCEPT ![s] = r.zset]
                   ELSE zset
      /\ admitLog' = IF evalshaRuns(sc, "LUA_SLIDING_WINDOW") /\ r.ok
                       THEN [admitLog EXCEPT ![clock] = @ + 1]
                       ELSE admitLog
      /\ UNCHANGED <<ScriptFrame, storeHealthVars, inflight>>

\* a process calls acquireConcurrency(key, limit)
CallAcquireConcurrency(s, limit) ==
  LET sc == ensureLoaded(scripts)
      r  == acquireConcurrency(s, limit)
  IN  /\ scripts' = Called(sc, "acquireConcurrency", "LUA_CONCURRENCY", r.ok)
      /\ inflight' = IF evalshaRuns(sc, "LUA_CONCURRENCY")
                       THEN [inflight EXCEPT ![s] = r.entry]
                       ELSE inflight
      /\ UNCHANGED <<ScriptFrame, storeHealthVars, zset, admitLog>>

\* a process calls releaseConcurrency(key)
CallReleaseConcurrency(s) ==
  LET sc == ensureLoaded(scripts)
  IN  /\ scripts' = Called(sc, "releaseConcurrency", "LUA_CONCURRENCY_RELEASE", TRUE)
      /\ inflight' = IF evalshaRuns(sc, "LUA_CONCURRENCY_RELEASE")
                       THEN [inflight EXCEPT ![s] = releaseConcurrency(s).entry]
                       ELSE inflight
      /\ UNCHANGED <<ScriptFrame, storeHealthVars, zset, admitLog>>

\* a process calls checkKeyHealth(k, {incrementFailures})
CallCheckKeyHealth(k, incrementFailures) ==
  LET sc == ensureLoaded(scripts)
      h  == checkKeyHealth(k, CooldownTicks, FailureThreshold, incrementFailures, FALSE)
  IN  /\ scripts' = Called(sc, "checkKeyHealth", "LUA_KEY_HEALTH", h.available)
      /\ IF evalshaRuns(sc, "LUA_KEY_HEALTH")
           THEN /\ kpCooldown' = [kpCooldown EXCEPT ![k] = h.cd]
                /\ kpFailures' = [kpFailures EXCEPT ![k] = h.fl]
           ELSE UNCHANGED storeHealthVars
      /\ UNCHANGED <<ScriptFrame, zset, inflight, admitLog>>

\* SCRIPT FLUSH, or a restart of the store that keeps its data: the store
\* holds no script any more
ScriptFlush ==
  /\ scripts.loaded # {}
  /\ scripts' = [scripts EXCEPT !.loaded = {}, !.op = "none", !.threw = FALSE,
                                !.ok = FALSE]
  /\ UNCHANGED <<ScriptFrame, storeHealthVars, zset, inflight, admitLog>>

NextScripts ==
  \/ CallAcquireRpm(GlobalScope, 1)
  \/ CallAcquireConcurrency(GlobalScope, 1)
  \/ CallReleaseConcurrency(GlobalScope)
  \/ \E k \in ProviderKeys, inc \in BOOLEAN : CallCheckKeyHealth(k, inc)
  \/ ScriptFlush

\* ------------------------------------------- pickProviderKey with options
NumPickKeys == 3
PickKeys == 1..NumPickKeys
\* the endpoint of a row is a free name (scripts/add-provider-key.ts --endpoint)
PickEndpoints == Endpoints \cup {"backup"}
PickModels == {"none", "gemini-3-pro-image-preview"}

\* the counters of an endpoint after no call, after nine markEndpointSuccess
\* and one markEndpointFailure, and after one of each
EpHistories ==
  {[failures |-> 0, successes |-> 0], [failures |-> 1, successes |-> 9],
   [failures |-> 1, successes |-> 1]}

\* key 1 is on official, key 2 on yunwu, key 3 on backup, further keys on official
PickRows(prio, en) ==
  [k \in PickKeys |->
     [enabled |-> (k \in en), priority |-> prio[k], rpmLimit |-> 1, concurrencyLimit |-> 1,
      endpoint |-> IF k = 2 THEN "yunwu" ELSE IF k = 3 THEN "backup" ELSE "official",
      encryptedKey |-> "AIza-A"]]

\* a process calls pickProviderKey('gemini', options); the call writes no
\* store key, so one call from each state shows every result
PickWith(preferredEndpoint, allowFallback, model, excludeEndpoints) ==
  /\ ~lastPick.made
  /\ lastPick' = [made |-> TRUE,
                  key |-> pickProviderKey(preferredEndpoint, allowFallback, model,
                                          excludeEndpoints),
                  at |-> clock, preferredEndpoint |-> preferredEndpoint,
                  allowFallback |-> allowFallback, model |-> model,
                  excludeEndpoints |-> excludeEndpoints]
  /\ UNCHANGED <<clock, rpmVars, keyRow, epStats, scripts, storeHealthVars, consec, expectedUntil,
                 counted, lastFailAt, countedUntil, deployVars, intakeVars, execVars>>

NextPick ==
  \E pe \in PickEndpoints \cup {"none"}, af \in BOOLEAN, model \in PickModels,
     excl \in {x \in SUBSET PickEndpoints : Cardinality(x) <= 1} :
    PickWith(pe, af, model, excl)

\* time passes: expired store keys disappear; the history forgets deadlines
\* that have passed and failures older than the counter's TTL
HealthTick ==
  /\ clock < MaxTime
  /\ clock' = clock + 1
  /\ kpCooldown' = [k \in ProviderKeys |-> ExpireAt(kpCooldown[k], clock + 1)]
  /\ kpFailures' = [k \in ProviderKeys |-> ExpireAt(kpFailures[k], clock + 1)]
  /\ lastPick' = NoPick
  /\ expectedUntil' = [k \in ProviderKeys |-> Pending(expectedUntil[k], clock + 1)]
  /\ countedUntil' = [k \in ProviderKeys |-> Pending(countedUntil[k], clock + 1)]
  /\ counted' = [k \in ProviderKeys |->
                   IF clock + 1 >= lastFailAt[k] + FailureTtlTicks THEN 0 ELSE counted[k]]
  /\ lastFailAt' = [k \in ProviderKeys |->
                   IF clock + 1 >= lastFailAt[k] + FailureTtlTicks THEN 0 ELSE lastFailAt[k]]
  /\ UNCHANGED <<rpmVars, keyRow, epStats, scripts, consec, deployVars, intakeVars, execVars>>

DefaultKeyRows == KeyRowsOf(UnitPlan, UnitPlan)

\* the rows differ in which credentials are enabled
KeyRowChoices ==
  {[k \in ProviderKeys |-> [DefaultKeyRows[k] EXCEPT !.enabled = (k \in en)]] :
     en \in SUBSET ProviderKeys}

\* no markEndpointSuccess or markEndpointFailure call was made
NoEpStats == [ep \in Endpoints |-> [failures |-> 0, successes |-> 0]]

InitHealthIdle ==
  /\ epStats = NoEpStats
  /\ scripts = NoScripts
  /\ kpCooldown = [k \in ProviderKeys |-> Absent]
  /\ kpFailures = [k \in ProviderKeys |-> Absent]
  /\ lastPick = NoPick
  /\ consec = [k \in ProviderKeys |-> 0]
  /\ expectedUntil = [k \in ProviderKeys |-> 0]
  /\ counted = [k \in ProviderKeys |-> 0]
  /\ lastFailAt = [k \in ProviderKeys |-> 0]
  /\ countedUntil = [k \in ProviderKeys |-> 0]

InitHealth ==
  /\ clock = 0
  /\ InitRpmIdle
  /\ rpmLimit = 1
  /\ InitHealthIdle
  /\ keyRow \in KeyRowChoices
  /\ InitDeploy(UnitPlan, UnitPlan)
  /\ InitExecIdle

\* any priorities, key 2 enabled or not, key 1 in cooldown or not, any of the
\* histories of each endpoint
InitPick ==
  /\ clock = 0
  /\ InitRpmIdle
  /\ rpmLimit = 1
  /\ \E prio \in [PickKeys -> 1..2], off \in SUBSET {2} :
       keyRow = PickRows(prio, PickKeys \ off)
  /\ epStats \in [PickEndpoints -> EpHistories]
  /\ scripts = NoScripts
  /\ \E cool \in SUBSET {1} :
       kpCooldown = [k \in PickKeys |->
                       IF k \in cool THEN [v |-> CooldownTicks, px |-> CooldownTicks]
                                     ELSE Absent]
  /\ kpFailures = [k \in PickKeys |-> Absent]
  /\ lastPick = NoPick
  /\ consec = [k \in PickKeys |-> 0]
  /\ expectedUntil = [k \in PickKeys |-> 0]
  /\ counted = [k \in PickKeys |-> 0]
  /\ lastFailAt = [k \in PickKeys |-> 0]
  /\ countedUntil = [k \in PickKeys |-> 0]
  /\ InitDeploy(UnitPlan, UnitPlan)
  /\ InitExecIdle

SpecPick == InitPick /\ [][NextPick]_vars

\* the limit of the counter of a scope
ConcLimit(s) ==
  IF s = GlobalScope THEN config.globalConcurrency
  ELSE IF s[1] = "key" THEN keyRow[s[2]].concurrencyLimit
  ELSE tenantRow[s[2]].planConcurrency

InitScripts ==
  /\ clock = 0
  /\ InitRpmIdle
  /\ rpmLimit = 1
  /\ InitHealthIdle
  /\ keyRow = DefaultKeyRows
  /\ InitDeploy(UnitPlan, UnitPlan)
  /\ InitExecIdle

SpecScripts == InitScripts /\ [][NextScripts]_vars

\* the in-flight counters under any limits, admits and releases in any order;
\* the clock stands still, so no counter expires
InitConc ==
  /\ clock = 0
  /\ InitRpmIdle
  /\ rpmLimit = 1
  /\ InitHealthIdle
  /\ \E conc \in Plans :
       /\ InitDeploy(UnitPlan, conc)
       /\ keyRow = KeyRowsOf(UnitPlan, conc)
  /\ InitExecIdle

NextConc ==
  \/ \E s \in Scopes : CallAcquireConcurrency(s, ConcLimit(s))
  \/ \E s \in Scopes : CallReleaseConcurrency(s)

SpecConc == InitConc /\ [][NextConc]_vars

NextHealth ==
  \/ \E k \in ProviderKeys, n \in {1, FailureThreshold} : MarkKeyFailure(k, n)
  \/ \E k \in ProviderKeys : MarkKeySuccess(k)
  \/ PickProviderKey
  \/ HealthTick

SpecHealth == InitHealth /\ [][NextHealth]_vars

AcquireRpmRead(w) ==
  /\ callPc[w] = "idle"
  /\ callPc' = [callPc EXCEPT ![w] = "evalsha"]
  /\ callNow' = [callNow EXCEPT ![w] = clock]
  /\ UNCHANGED <<clock, zset, rpmLimit, admitLog, healthVars,
                 deployVars, intakeVars, execVars>>

\* the EVALSHA of the call runs on the store and the call returns
AcquireRpmEval(w) ==
  /\ callPc[w] = "evalsha"
  /\ LET r == LUA_SLIDING_WINDOW(zset[GlobalScope], callNow[w], WindowTicks, rpmLimit)
     IN  /\ zset' = [zset EXCEPT ![GlobalScope] = r.zset]
         /\ admitLog' = IF r.ok THEN [admitLog EXCEPT ![clock] = @ + 1]
                                ELSE admitLog
  /\ callPc' = [callPc EXCEPT ![w] = "idle"]
  /\ UNCHANGED <<clock, rpmLimit, callNow, healthVars, deployVars, intakeVars, execVars>>

\* time passes
RpmTick ==
  /\ clock < MaxTime
  /\ clock' = clock + 1
  /\ UNCHANGED <<rpmVars, healthVars, deployVars, intakeVars, execVars>>

InitRpm ==
  /\ clock = 0
  /\ InitRpmIdle
  /\ rpmLimit \in 1..MaxLimit
  /\ InitHealthIdle
  /\ keyRow = DefaultKeyRows
  /\ InitDeploy(UnitPlan, UnitPlan)
  /\ InitExecIdle

NextRpm ==
  \/ \E w \in Callers : AcquireRpmRead(w)
  \/ \E w \in Callers : AcquireRpmEval(w)
  \/ RpmTick

SpecRpm == InitRpm /\ [][NextRpm]_vars

\* one rate window under any limit: calls of acquireRpm, each run at the time
\* it is made, and the clock
NextWindow ==
  \/ CallAcquireRpm(GlobalScope, rpmLimit)
  \/ RpmTick

SpecWindow == InitRpm /\ [][NextWindow]_vars

\* Original statement of C1 (violated: Date.now() is read by the caller before
\* the script runs, so a late EVALSHA stores an old score that the next call
\* trims although its admission is recent).
\* C1: for the limiter key, in every window of WindowTicks consecutive clock
\* values the number of acquireRpm calls that returned admitted is at most
\* the configured limit.
C1_WindowBound ==
  \A s \in Times : SumRange(admitLog, s - WindowTicks + 1, s) <= rpmLimit

\* ------------------------------------------- the generate worker, step by step
\* what the steps of the worker, the intake and the clock leave alone
ExecFrame ==
  UNCHANGED <<rpmLimit, callPc, callNow, admitLog, keyRow, epStats, scripts, histHealthVars,
              deployVars>>

Entry(e) == queue[e]
Queued(e) == e \in 1..Len(queue)

\* the invocation goes on to the next step after an admitted call
Admitted(r, next, event) ==
  [r EXCEPT !.pc = next, !.trace = Append(@, event)]

\* throw new Error(code): outside the try block the processor rejects at once
Denied(r, code, event, insideTry) ==
  [r EXCEPT !.pc = IF insideTry THEN "catch" ELSE "end",
            !.err = PlainError(code), !.thrown = ~insideTry,
            !.trace = Append(@, event)]

\* variant: the row's status is not looked at
RunLoad_NoStatusCheck(e) ==
  /\ Queued(e) /\ Entry(e).state = "waiting"
  /\ queue' = [queue EXCEPT ![e].state = "active"]
  /\ LET dbJob == jobs[Entry(e).jobId]
     IN  run' = [run EXCEPT ![e] =
                   [IdleRun EXCEPT !.dbJob = dbJob, !.pc = "globalRpm"]]
  /\ UNCHANGED <<clock, zset, storeHealthVars, intakeVars, inflight, jobs, fresh,
                 cache, webhooks>>
  /\ ExecFrame

\* the worker takes a waiting entry and loads the job row
RunLoad(e) ==
  /\ Queued(e) /\ Entry(e).state = "waiting"
  /\ queue' = [queue EXCEPT ![e].state = "active"]
  /\ LET dbJob == jobs[Entry(e).jobId]
     IN  run' = [run EXCEPT ![e] =
                   [IdleRun EXCEPT !.dbJob = dbJob,
                      !.pc = IF dbJob.status = "CANCELED" THEN "end" ELSE "globalRpm"]]
  /\ UNCHANGED <<clock, zset, storeHealthVars, intakeVars, inflight, jobs, fresh,
                 cache, webhooks>>
  /\ ExecFrame

RunGlobalRpm(e) ==
  /\ run[e].pc = "globalRpm"
  /\ LET r == acquireRpm(GlobalScope, config.globalRpm)
     IN  /\ zset' = [zset EXCEPT ![GlobalScope] = r.zset]
         /\ run' = [run EXCEPT ![e] =
               IF r.ok THEN Admitted(@, "globalConc", Rpm("global", TRUE))
               ELSE Denied(@, "GLOBAL_RATE_LIMIT", Rpm("global", FALSE), FALSE)]
  /\ UNCHANGED <<clock, storeHealthVars, intakeVars, inflight, jobs, fresh, queue,
                 cache, webhooks>>
  /\ ExecFrame

RunGlobalConc(e) ==
  /\ run[e].pc = "globalConc"
  /\ LET r == acquireConcurrency(GlobalScope, config.globalConcurrency)
     IN  /\ inflight' = [inflight EXCEPT ![GlobalScope] = r.entry]
         /\ run' = [run EXCEPT ![e] =
               IF r.ok THEN Admitted(@, "pick", Conc("global", TRUE))
               ELSE Denied(@, "GLOBAL_CONC_LIMIT", Conc("global", FALSE), FALSE)]
  /\ UNCHANGED <<clock, zset, storeHealthVars, intakeVars, jobs, fresh, queue,
                 cache, webhooks>>
  /\ ExecFrame

\* pickProviderKey('gemini'); keyConcKey is set as soon as a key is picked
RunPick(e) ==
  /\ run[e].pc = "pick"
  /\ LET providerKey == pickProviderKey("none", TRUE, "none", {})
     IN  run' = [run EXCEPT ![e] =
               IF providerKey = 0
                 THEN [@ EXCEPT !.pc = "catch",
                                !.err = PlainError("NO_PROVIDER_KEY_AVAILABLE")]
                 ELSE [@ EXCEPT !.pc = "keyRpm", !.key = providerKey,
                                !.keyConcKey = providerKey]]
  /\ UNCHANGED <<clock, zset, storeHealthVars, intakeVars, inflight, jobs, fresh,
                 queue, cache, webhooks>>
  /\ ExecFrame

RunKeyRpm(e) ==
  /\ run[e].pc = "keyRpm"
  /\ LET k == run[e].key
         r == acquireRpm(KeyScope(k), keyRow[k].rpmLimit)
     IN  /\ zset' = [zset EXCEPT ![KeyScope(k)] = r.zset]
         /\ run' = [run EXCEPT ![e] =
               IF r.ok THEN Admitted(@, "keyConc", Rpm("key", TRUE))
               ELSE Denied(@, "KEY_RATE_LIMIT", Rpm("key", FALSE), TRUE)]
  /\ UNCHANGED <<clock, storeHealthVars, intakeVars, inflight, jobs, fresh, queue,
                 cache, webhooks>>
  /\ ExecFrame

RunKeyConc(e) ==
  /\ run[e].pc = "keyConc"
  /\ LET k == run[e].keyConcKey
         r == acquireConcurrency(KeyScope(k), keyRow[k].concurrencyLimit)
     IN  /\ inflight' = [inflight EXCEPT ![KeyScope(k)] = r.entry]
         /\ run' = [run EXCEPT ![e] =
               IF r.ok THEN Admitted(@, "tenantRpm", Conc("key", TRUE))
               ELSE Denied(@, "KEY_CONC_LIMIT", Conc("key", FALSE), TRUE)]
  /\ UNCHANGED <<clock, zset, storeHealthVars, intakeVars, jobs, fresh, queue,
                 cache, webhooks>>
  /\ ExecFrame

RunTenantRpm(e) ==
  /\ run[e].pc = "tenantRpm"
  /\ LET t == run[e].dbJob.tenantId
         r == acquireRpm(TenantScope(t), tenantRow[t].planRpm)
     IN  /\ zset' = [zset EXCEPT ![TenantScope(t)] = r.zset]
         /\ run' = [run EXCEPT ![e] =
               IF r.ok THEN Admitted(@, "tenantConc", Rpm("tenant", TRUE))
               ELSE Denied(@, "TENANT_RATE_LIMIT", Rpm("tenant", FALSE), TRUE)]
  /\ UNCHANGED <<clock, storeHealthVars, intakeVars, inflight, jobs, fresh, queue,
                 cache, webhooks>>
  /\ ExecFrame

RunTenantConc(e) ==
  /\ run[e].pc = "tenantConc"
  /\ LET t == run[e].dbJob.tenantId
         r == acquireConcurrency(TenantScope(t), tenantRow[t].planConcurrency)
     IN  /\ inflight' = [inflight EXCEPT ![TenantScope(t)] = r.entry]
         /\ run' = [run EXCEPT ![e] =
               IF r.ok THEN Admitted(@, "markJobRunning", Conc("tenant", TRUE))
               ELSE Denied(@, "TENANT_CONC_LIMIT", Conc("tenant", FALSE), TRUE)]
  /\ UNCHANGED <<clock, zset, storeHealthVars, intakeVars, jobs, fresh, queue,
                 cache, webhooks>>
  /\ ExecFrame

RunMarkJobRunning(e) ==
  /\ run[e].pc = "markJobRunning"
  /\ jobs' = [jobs EXCEPT ![Entry(e).jobId] = markJobRunning(@, run[e].key)]
  /\ run' = [run EXCEPT ![e].pc = "checkCache"]
  /\ UNCHANGED <<clock, zset, storeHealthVars, intakeVars, inflight, fresh, queue,
                 cache, webhooks>>
  /\ ExecFrame

\* a 'send' entry as webhookQueue.add creates it; posts counts the POST
\* requests made for it, last is the outcome of the latest one
NoRequest == [body |-> <<>>, signature |-> <<>>]

WebhookEvent(jobId) ==
  [jobId |-> jobId, attemptsMade |-> 0, state |-> "waiting", posts |-> 0,
   last |-> "none", sent |-> NoRequest]

\* number of entries of the webhook queue for a job
HooksOf(q, jobId) == Cardinality({i \in 1..Len(q) : q[i].jobId = jobId})

\* the webhook queue after webhookQueue.add, when the tenant has a webhook
webhookQueueAdd(t, jobId) ==
  IF tenantRow[t].webhookEnabled THEN Append(webhooks, WebhookEvent(jobId)) ELSE webhooks

\* checkCache; on a hit the urls are appended, the job is marked succeeded, the
\* key healthy, the webhook queued, and the processor returns
RunCheckCache(e) ==
  /\ run[e].pc = "checkCache"
  /\ LET cachedImages == checkCache(run[e].dbJob.promptLength, run[e].dbJob.mode)
         j == Entry(e).jobId
         k == run[e].key
         h == markKeySuccess(k)
     IN  IF Len(cachedImages) > 0
           THEN /\ jobs' = [jobs EXCEPT ![j] =
                     markJobSucceeded([@ EXCEPT !.resultUrls = @ \o cachedImages],
                                      cachedImages)]
                /\ kpCooldown' = [kpCooldown EXCEPT ![k] = h.cd]
                /\ kpFailures' = [kpFailures EXCEPT ![k] = h.fl]
                /\ webhooks' = webhookQueueAdd(run[e].dbJob.tenantId, j)
                /\ run' = [run EXCEPT ![e] = [@ EXCEPT !.pc = "finallyKey",
                                                       !.cacheHit = TRUE]]
           ELSE /\ run' = [run EXCEPT ![e].pc = "geminiGenerate"]
                /\ UNCHANGED <<jobs, storeHealthVars, webhooks>>
  /\ UNCHANGED <<clock, zset, intakeVars, inflight, fresh, queue, cache>>
  /\ ExecFrame

\* the endpoint geminiSubmit uses when its options name none, and the
\* fallbackEndpoints geminiGenerate defaults to
DefaultEndpoint == "official"
FallbackEndpoints == <<"yunwu">>

\* the HTTP status each endpoint answers a request with
HttpStatuses == {200, 400, 503}

\* the answer of an endpoint no HTTP response came from: fetch rejects
FetchFailed == 0
Answers == HttpStatuses \cup {FetchFailed}

\* GEMINI_ENDPOINTS: the base URL and the place of the API key in a request
GEMINI_ENDPOINTS ==
  [official |-> [baseUrl |-> "https://generativelanguage.googleapis.com",
                 authType |-> "url-key"],
   yunwu    |-> [baseUrl |-> "https://yunwu.ai", authType |-> "bearer"]]

\* buildApiUrl: the key in the query of the URL, or in the Authorization header
buildApiUrl(endpoint, model, apiKey) ==
  LET cfg == GEMINI_ENDPOINTS[endpoint]
  IN  IF cfg.authType = "url-key"
        THEN [url |-> [baseUrl |-> cfg.baseUrl, model |-> model, key |-> apiKey],
              headers |-> [Authorization |-> "none"]]
        ELSE [url |-> [baseUrl |-> cfg.baseUrl, model |-> model, key |-> "none"],
              headers |-> [Authorization |-> apiKey]]

\* the TypeError fetch rejects with when no response arrives, as a string: it
\* names neither the URL nor the headers of the request
FetchError(request) == "TypeError: fetch failed"

\* `Gemini submit failed ${error}`
SubmitFailedMessage(error) ==
  IF error = "TypeError: fetch failed"
    THEN "Gemini submit failed TypeError: fetch failed"
    ELSE error

\* variant: the error of a failed submit carries the URL of the request, which
\* is told here by the key in it
geminiSubmit_UrlInMessage(apiKey, endpoint, answers) ==
  LET request == buildApiUrl(endpoint, "model", apiKey)
  IN  IF answers[endpoint] = 200
        THEN [thrown |-> FALSE, err |-> NoErr, endpoint |-> endpoint]
        ELSE [thrown |-> TRUE,
              err |-> [handleGeminiError(answers[endpoint]) EXCEPT !.msg =
                         IF request.url.key # "none" THEN request.url.key
                         ELSE request.headers.Authorization],
              endpoint |-> endpoint]

\* geminiSubmit: the POST to the URL of the endpoint; a response that is not
\* ok makes handleGeminiError throw, and what fetch throws becomes a
\* retryable ProviderError
geminiSubmit(apiKey, endpoint, answers) ==
  LET request == buildApiUrl(endpoint, "model", apiKey)
  IN  IF answers[endpoint] = FetchFailed
        THEN [thrown |-> TRUE,
              err |-> AppError(SubmitFailedMessage(FetchError(request)), TRUE),
              endpoint |-> endpoint]
      ELSE IF answers[endpoint] = 200
        THEN [thrown |-> FALSE, err |-> NoErr, endpoint |-> endpoint]
        ELSE [thrown |-> TRUE, err |-> handleGeminiError(answers[endpoint]),
              endpoint |-> endpoint]

\* geminiGenerate: geminiSubmit is called before the try block, so what it
\* throws leaves geminiGenerate; geminiPoll, inside the try block, reads the
\* response geminiSubmit has stored and throws nothing, so the catch block
\* with the loop over the fallback endpoints is not entered
geminiGenerate(apiKey, endpoint, answers, enableFallback, fallbackEndpoints) ==
  LET submit == geminiSubmit(apiKey, endpoint, answers)
  IN  IF submit.thrown
        THEN [thrown |-> TRUE, err |-> submit.err, status |-> "none",
              endpoint |-> "none"]
        ELSE [thrown |-> FALSE, err |-> NoErr, status |-> "SUCCEEDED",
              endpoint |-> submit.endpoint]

\* the statuses of the responses a provider gives
ProviderStatuses == {200, 400, 401, 429, 500, 503}

\* the call of geminiGenerate with any of the provider's statuses and, in a
\* response that is ok, any number of images: a result that is FAILED makes
\* the worker throw an Error with its message
RunGeminiAnswer(e) ==
  /\ run[e].pc = "geminiGenerate"
  /\ \E status \in ProviderStatuses, n \in 0..MaxImages :
       LET submit == geminiSubmit(keyRow[run[e].key].encryptedKey, DefaultEndpoint,
                                  [ep \in Endpoints |-> status])
           result == parseGeminiResponse(n)
       IN  run' = [run EXCEPT ![e] =
             IF submit.thrown
               THEN [@ EXCEPT !.pc = "catch", !.err = submit.err]
             ELSE IF result.status = "FAILED"
               THEN [@ EXCEPT !.pc = "catch", !.err = PlainError(result.error)]
               ELSE [@ EXCEPT !.pc = "upload", !.images = n, !.pending = 1..n]]
  /\ UNCHANGED <<clock, zset, storeHealthVars, intakeVars, inflight, jobs, fresh,
                 queue, cache, webhooks>>
  /\ ExecFrame

\* the PickedKey of a row: its secret is the encryptedKey column as stored
PickedKey(k) == [id |-> k, secret |-> keyRow[k].encryptedKey]

\* the worker calls geminiGenerate without an endpoint and with
\* enableFallback: true; the provider answers with images or with an error
RunGeminiGenerate(e) ==
  /\ run[e].pc = "geminiGenerate"
  /\ \E answers \in [Endpoints -> Answers], n \in 1..MaxImages :
       LET result == geminiGenerate(PickedKey(run[e].key).secret, DefaultEndpoint, answers,
                                    TRUE, FallbackEndpoints)
       IN  run' = [run EXCEPT ![e] =
             IF result.thrown
               THEN [@ EXCEPT !.pc = "catch", !.err = result.err]
               ELSE [@ EXCEPT !.pc = "upload", !.images = n, !.pending = 1..n]]
  /\ UNCHANGED <<clock, zset, storeHealthVars, intakeVars, inflight, jobs, fresh,
                 queue, cache, webhooks>>
  /\ ExecFrame

\* the url of the image with index i
ImageUrl(i) == i

\* one upload of the batch completes: putImage, then the findUnique of
\* appendJobResultUrl reads the row's list
RunUpload(e, i) ==
  /\ run[e].pc = "upload"
  /\ i \in run[e].pending
  /\ \A rd \in run[e].reads : rd.index # i
  /\ run' = [run EXCEPT ![e].reads =
               @ \cup {[index |-> i, currentUrls |-> jobs[Entry(e).jobId].resultUrls]}]
  /\ UNCHANGED <<clock, zset, storeHealthVars, intakeVars, inflight, jobs, fresh,
                 queue, cache, webhooks>>
  /\ ExecFrame

\* the update of appendJobResultUrl for image i; Promise.all resolves with the
\* urls in index order once all have completed
RunAppend(e, i) ==
  /\ run[e].pc = "upload"
  /\ \E rd \in run[e].reads :
       /\ rd.index = i
       /\ jobs' = [jobs EXCEPT ![Entry(e).jobId] =
                     appendJobResultUrl(@, rd.currentUrls, ImageUrl(i))]
       /\ LET left == run[e].pending \ {i}
          IN  run' = [run EXCEPT ![e] =
                        IF left = {}
                          THEN [@ EXCEPT !.pending = left, !.reads = {},
                                         !.pc = "saveToCache",
                                         !.urls = [x \in 1..run[e].images |-> ImageUrl(x)]]
                          ELSE [@ EXCEPT !.pending = left, !.reads = @ \ {rd}]]
  /\ UNCHANGED <<clock, zset, storeHealthVars, intakeVars, inflight, fresh, queue,
                 cache, webhooks>>
  /\ ExecFrame

\* putImage throws a StorageError: Promise.all rejects; the uploads of the
\* batch that have not completed by then are taken not to complete
RunUploadFails(e, i) ==
  /\ run[e].pc = "upload"
  /\ i \in run[e].pending
  /\ \A rd \in run[e].reads : rd.index # i
  /\ run' = [run EXCEPT ![e] = [@ EXCEPT !.pending = {}, !.reads = {}, !.pc = "catch",
                                         !.err = StorageError]]
  /\ UNCHANGED <<clock, zset, storeHealthVars, intakeVars, inflight, jobs, fresh,
                 queue, cache, webhooks>>
  /\ ExecFrame

RunSaveToCache(e) ==
  /\ run[e].pc = "saveToCache"
  /\ cache' = saveToCache(run[e].dbJob.promptLength, run[e].urls, run[e].dbJob.mode)
  /\ run' = [run EXCEPT ![e].pc = "markJobSucceeded"]
  /\ UNCHANGED <<clock, zset, storeHealthVars, intakeVars, inflight, jobs, fresh,
                 queue, webhooks>>
  /\ ExecFrame

RunMarkJobSucceeded(e) ==
  /\ run[e].pc = "markJobSucceeded"
  /\ jobs' = [jobs EXCEPT ![Entry(e).jobId] = markJobSucceeded(@, run[e].urls)]
  /\ run' = [run EXCEPT ![e].pc = "markKeySuccess"]
  /\ UNCHANGED <<clock, zset, storeHealthVars, intakeVars, inflight, fresh, queue,
                 cache, webhooks>>
  /\ ExecFrame

RunMarkKeySuccess(e) ==
  /\ run[e].pc = "markKeySuccess"
  /\ LET k == run[e].key
         h == markKeySuccess(k)
     IN  /\ kpCooldown' = [kpCooldown EXCEPT ![k] = h.cd]
         /\ kpFailures' = [kpFailures EXCEPT ![k] = h.fl]
  /\ run' = [run EXCEPT ![e].pc = "webhook"]
  /\ UNCHANGED <<clock, zset, intakeVars, inflight, jobs, fresh, queue, cache,
                 webhooks>>
  /\ ExecFrame

RunWebhook(e) ==
  /\ run[e].pc = "webhook"
  /\ webhooks' = webhookQueueAdd(run[e].dbJob.tenantId, Entry(e).jobId)
  /\ run' = [run EXCEPT ![e].pc = "finallyKey"]
  /\ UNCHANGED <<clock, zset, storeHealthVars, intakeVars, inflight, jobs, fresh,
                 queue, cache>>
  /\ ExecFrame

\* nextAttempts of the catch block: from the row as loaded at the start
CatchNextAttempts(r) == r.dbJob.attempts + 1

\* the rethrow condition of the catch block
CatchRethrows(r) ==
  CatchRetryable(r.err) /\ CatchNextAttempts(r) < r.dbJob.maxAttempts

\* catch: classify the error and mark the job failed
RunCatch(e) ==
  /\ run[e].pc = "catch"
  /\ LET j == Entry(e).jobId
         errorMessage == getErrorMessage(run[e].err)
         errorCode == getErrorCode(errorMessage)
         row == markJobFailed(jobs[j], errorCode, errorMessage, CatchRethrows(run[e]))
     IN  /\ jobs' = [jobs EXCEPT ![j] = row]
         /\ run' = [run EXCEPT ![e] =
               [@ EXCEPT !.pc = "markKeyFailure",
                         !.mark = [status |-> row.status, attempts |-> row.attempts,
                                   code |-> row.errorCode, msg |-> row.errorMessage]]]
  /\ UNCHANGED <<clock, zset, storeHealthVars, intakeVars, inflight, fresh, queue,
                 cache, webhooks>>
  /\ ExecFrame

\* catch, continued: markKeyFailure if a key was picked, the failure webhook
\* for an error that is not retryable, and the rethrow
RunMarkKeyFailure(e) ==
  /\ run[e].pc = "markKeyFailure"
  /\ LET k == run[e].keyConcKey
         h == markKeyFailure(k, CatchNextAttempts(run[e]))
     IN  IF k # 0
           THEN /\ kpCooldown' = [kpCooldown EXCEPT ![k] = h.cd]
                /\ kpFailures' = [kpFailures EXCEPT ![k] = h.fl]
           ELSE UNCHANGED storeHealthVars
  /\ webhooks' = IF ~CatchRetryable(run[e].err)
                   THEN webhookQueueAdd(run[e].dbJob.tenantId, Entry(e).jobId)
                   ELSE webhooks
  /\ run' = [run EXCEPT ![e] = [@ EXCEPT !.pc = "finallyKey",
                                         !.thrown = CatchRethrows(run[e])]]
  /\ UNCHANGED <<clock, zset, intakeVars, inflight, jobs, fresh, queue, cache>>
  /\ ExecFrame

\* variant: the finally block starts with the global counter
RunFinallyKey_GlobalFirst(e) ==
  /\ run[e].pc = "finallyKey"
  /\ inflight' = [inflight EXCEPT ![GlobalScope] =
                    releaseConcurrency(GlobalScope).entry]
  /\ run' = [run EXCEPT ![e] = Admitted(@, "finallyTenant", Release("global"))]
  /\ UNCHANGED <<clock, zset, storeHealthVars, intakeVars, jobs, fresh, queue,
                 cache, webhooks>>
  /\ ExecFrame

\* finally: if (keyConcKey) releaseConcurrency(keyConcKey)
RunFinallyKey(e) ==
  /\ run[e].pc = "finallyKey"
  /\ LET k == run[e].keyConcKey
     IN  IF k # 0
           THEN /\ inflight' = [inflight EXCEPT ![KeyScope(k)] =
                                  releaseConcurrency(KeyScope(k)).entry]
                /\ run' = [run EXCEPT ![e] =
                             Admitted(@, "finallyTenant", Release("key"))]
           ELSE /\ run' = [run EXCEPT ![e].pc = "finallyTenant"]
                /\ UNCHANGED inflight
  /\ UNCHANGED <<clock, zset, storeHealthVars, intakeVars, jobs, fresh, queue,
                 cache, webhooks>>
  /\ ExecFrame

\* finally: releaseConcurrency of the tenant counter
RunFinallyTenant(e) ==
  /\ run[e].pc = "finallyTenant"
  /\ LET s == TenantScope(run[e].dbJob.tenantId)
     IN  inflight' = [inflight EXCEPT ![s] = releaseConcurrency(s).entry]
  /\ run' = [run EXCEPT ![e] = Admitted(@, "finallyGlobal", Release("tenant"))]
  /\ UNCHANGED <<clock, zset, storeHealthVars, intakeVars, jobs, fresh, queue,
                 cache, webhooks>>
  /\ ExecFrame

\* finally: releaseConcurrency of the global counter; the processor is done
RunFinallyGlobal(e) ==
  /\ run[e].pc = "finallyGlobal"
  /\ inflight' = [inflight EXCEPT ![GlobalScope] =
                    releaseConcurrency(GlobalScope).entry]
  /\ run' = [run EXCEPT ![e] = Admitted(@, "end", Release("global"))]
  /\ UNCHANGED <<clock, zset, storeHealthVars, intakeVars, jobs, fresh, queue,
                 cache, webhooks>>
  /\ ExecFrame

\* the queue settles the entry: completed, or after a rejection retried until
\* attemptsMade reaches the attempts option
Settle(e) ==
  /\ run[e].pc = "end"
  /\ queue' = [queue EXCEPT ![e] =
       IF run[e].thrown
         THEN [@ EXCEPT !.attemptsMade = @ + 1,
                        !.state = IF Entry(e).attemptsMade + 1 < QueueAttempts
                                    THEN "waiting" ELSE "failed"]
         ELSE [@ EXCEPT !.state = "completed"]]
  /\ run' = [run EXCEPT ![e] = IdleRun]
  /\ UNCHANGED <<clock, zset, storeHealthVars, intakeVars, inflight, jobs, fresh,
                 cache, webhooks>>
  /\ ExecFrame

\* ----------------------------------------------------------- the intake
\* generateQueue.add('generate', {jobId}, {attempts: 4, ...})
generateQueueAdd(jobId) ==
  Append(queue, [jobId |-> jobId, attemptsMade |-> 0, state |-> "waiting"])

\* generateQueue.getJob(id) looks an entry up by the queue's own id, which
\* add() generates; a job row id matches none
generateQueueGetJob(jobId) == 0

\* POST /v1/images/generate up to the lookup of createJob.  A row found is
\* returned as it is, unless it is QUEUED and younger than 1000 ms: then the
\* controller adds it to the queue.
GenerateLookup(r, t, key) ==
  /\ reqPc[r] = "idle"
  /\ reqArg' = [reqArg EXCEPT ![r] = [tenantId |-> t, idempotencyKey |-> key]]
  /\ LET existing == IF key # "none" THEN FindByIdempotencyKey(t, key) ELSE 0
     IN  IF existing = 0
           THEN /\ Len(jobs) < MaxJobs
                /\ reqPc' = [reqPc EXCEPT ![r] = "create"]
                /\ resp' = [resp EXCEPT ![r] = [status |-> 0, jobId |-> 0]]
                /\ UNCHANGED queue
           ELSE /\ resp' = [resp EXCEPT ![r] = [status |-> 202, jobId |-> existing]]
                /\ UNCHANGED reqPc
                /\ IF jobs[existing].status # "QUEUED" \/ existing \notin fresh
                     THEN UNCHANGED queue
                     ELSE /\ Len(queue) < MaxEntries
                          /\ queue' = generateQueueAdd(existing)
  /\ UNCHANGED <<clock, zset, storeHealthVars, cancelPc, cancelResp, getResp, inflight, jobs, fresh, run,
                 cache, webhooks>>
  /\ ExecFrame

\* prisma.job.create and the rest of the controller: the insert fails on the
\* unique index when a row with the key exists by now (the request fails);
\* otherwise the new row is added to the queue
GenerateCreate(r) ==
  /\ reqPc[r] = "create"
  /\ reqPc' = [reqPc EXCEPT ![r] = "idle"]
  /\ LET t == reqArg[r].tenantId
         key == reqArg[r].idempotencyKey
     IN  IF UniqueViolation(key)
           THEN /\ resp' = [resp EXCEPT ![r] = [status |-> 500, jobId |-> 0]]
                /\ UNCHANGED <<jobs, fresh, queue>>
           ELSE /\ Len(jobs) < MaxJobs
                /\ Len(queue) < MaxEntries
                /\ jobs' = Append(jobs, NewJob(t, key))
                /\ fresh' = fresh \cup {Len(jobs) + 1}
                /\ queue' = generateQueueAdd(Len(jobs) + 1)
                /\ resp' = [resp EXCEPT ![r] = [status |-> 202, jobId |-> Len(jobs) + 1]]
  /\ UNCHANGED <<clock, zset, storeHealthVars, reqArg, cancelPc, cancelResp, getResp, inflight, run,
                 cache, webhooks>>
  /\ ExecFrame

\* DELETE /v1/jobs/{id} up to the status check: 404 when the tenant has no
\* such row, 400 when the row is not QUEUED or RETRYING
CancelRead(t, j) ==
  /\ cancelPc = 0
  /\ IF j \notin JobIds
       THEN /\ cancelResp' = [status |-> 404, error |-> "NOT_FOUND", jobId |-> j]
            /\ UNCHANGED cancelPc
       ELSE IF jobs[j].tenantId # t
         THEN /\ cancelResp' = [status |-> 404, error |-> "NOT_FOUND", jobId |-> j]
              /\ UNCHANGED cancelPc
         ELSE IF jobs[j].status \notin {"QUEUED", "RETRYING"}
           THEN /\ cancelResp' = [status |-> 400, error |-> "INVALID_STATE", jobId |-> j]
                /\ UNCHANGED cancelPc
           ELSE /\ cancelPc' = j
                /\ cancelResp' = NoAnswer
  /\ UNCHANGED <<clock, zset, storeHealthVars, reqPc, reqArg, resp, getResp, inflight,
                 jobs, fresh, queue, run, cache, webhooks>>
  /\ ExecFrame

\* the update to CANCELED; no queue entry is found to remove; the answer is
\* 200 with status CANCELED
CancelWrite ==
  /\ cancelPc # 0
  /\ jobs' = [jobs EXCEPT ![cancelPc].status = "CANCELED"]
  /\ queue' = IF generateQueueGetJob(cancelPc) # 0
                THEN [queue EXCEPT ![generateQueueGetJob(cancelPc)].state = "removed"]
                ELSE queue
  /\ cancelResp' = [status |-> 200, error |-> "none", jobId |-> cancelPc]
  /\ cancelPc' = 0
  /\ UNCHANGED <<clock, zset, storeHealthVars, reqPc, reqArg, resp, getResp, inflight,
                 fresh, run, cache, webhooks>>
  /\ ExecFrame

\* variant: the row is looked up by its id alone
getJob_AnyTenant(tenantId, jobId) ==
  IF jobId \notin JobIds
    THEN [status |-> 404, jobId |-> jobId, jobStatus |-> "none", resultUrls |-> <<>>,
          error |-> "NOT_FOUND", message |-> "null"]
  ELSE LET job == jobs[jobId]
       IN  [status |-> 200, jobId |-> jobId, jobStatus |-> job.status,
            resultUrls |-> IF job.status = "SUCCEEDED" THEN job.resultUrls ELSE <<>>,
            error |-> IF job.status = "FAILED" THEN job.errorCode ELSE "null",
            message |-> IF job.status = "FAILED" THEN job.errorMessage ELSE "null"]

\* the answer of GET /v1/jobs/{id}: 404 when the tenant has no such row;
\* resultUrls is the row's list when the status is SUCCEEDED, else empty
getJob(tenantId, jobId) ==
  IF jobId \notin JobIds
    THEN [status |-> 404, jobId |-> jobId, jobStatus |-> "none", resultUrls |-> <<>>,
          error |-> "NOT_FOUND", message |-> "null"]
  ELSE IF jobs[jobId].tenantId # tenantId
    THEN [status |-> 404, jobId |-> jobId, jobStatus |-> "none", resultUrls |-> <<>>,
          error |-> "NOT_FOUND", message |-> "null"]
  ELSE LET job == jobs[jobId]
       IN  [status |-> 200, jobId |-> jobId, jobStatus |-> job.status,
            resultUrls |-> IF job.status = "SUCCEEDED" THEN job.resultUrls ELSE <<>>,
            error |-> IF job.status = "FAILED" THEN job.errorCode ELSE "null",
            message |-> IF job.status = "FAILED" THEN job.errorMessage ELSE "null"]

\* GET /v1/jobs/{id}
GetJob(t, j) ==
  /\ getResp' = getJob(t, j)
  /\ UNCHANGED <<clock, zset, storeHealthVars, reqPc, reqArg, resp, cancelPc, cancelResp,
                 inflight, jobs, fresh, queue, run, cache, webhooks>>
  /\ ExecFrame

RECURSIVE listJobsFrom(_, _, _)
\* findMany where tenantId (and status), newest first: the ids of the rows
listJobsFrom(j, tenantId, status) ==
  IF j = 0 THEN <<>>
  ELSE IF jobs[j].tenantId = tenantId /\ (status = "none" \/ jobs[j].status = status)
    THEN <<j>> \o listJobsFrom(j - 1, tenantId, status)
    ELSE listJobsFrom(j - 1, tenantId, status)

\* the items of GET /v1/jobs, with no cursor and fewer rows than the limit
listJobs(tenantId, status) == listJobsFrom(Len(jobs), tenantId, status)

\* GET /v1/jobs?status=
ListJobs(t, status) ==
  /\ getResp' = [status |-> 200, jobId |-> 0, jobStatus |-> "none", resultUrls |-> <<>>,
                  error |-> "null", message |-> "null", items |-> listJobs(t, status)]
  /\ UNCHANGED <<clock, zset, storeHealthVars, reqPc, reqArg, resp, cancelPc, cancelResp,
                 inflight, jobs, fresh, queue, run, cache, webhooks>>
  /\ ExecFrame

\* a tenant that owns none of the rows of Tenants
OtherTenant == NumTenants + 1
CallerTenants == Tenants \cup {OtherTenant}
ListedStatuses == {"QUEUED", "SUCCEEDED", "FAILED"}

\* time passes: expired keys disappear, members every later script call would
\* trim first are dropped, no row is younger than 1000 ms any more
Tick ==
  /\ clock < MaxTime
  /\ clock' = clock + 1
  /\ zset' = [s \in Scopes |-> ZREMRANGEBYSCORE(zset[s], clock + 1 - WindowTicks)]
  /\ inflight' = [s \in Scopes |-> ExpireAt(inflight[s], clock + 1)]
  /\ kpCooldown' = [k \in ProviderKeys |-> ExpireAt(kpCooldown[k], clock + 1)]
  /\ kpFailures' = [k \in ProviderKeys |-> ExpireAt(kpFailures[k], clock + 1)]
  /\ fresh' = {}
  /\ UNCHANGED <<intakeVars, jobs, queue, run, cache, webhooks>>
  /\ ExecFrame

\* more than 1000 ms pass, less than a tick of the clock
Age ==
  /\ fresh # {}
  /\ fresh' = {}
  /\ UNCHANGED <<clock, zset, storeHealthVars, intakeVars, inflight, jobs, queue, run,
                 cache, webhooks>>
  /\ ExecFrame

RunStep(e) ==
  \/ RunLoad(e)
  \/ RunGlobalRpm(e)
  \/ RunGlobalConc(e)
  \/ RunPick(e)
  \/ RunKeyRpm(e)
  \/ RunKeyConc(e)
  \/ RunTenantRpm(e)
  \/ RunTenantConc(e)
  \/ RunMarkJobRunning(e)
  \/ RunCheckCache(e)
  \/ RunGeminiGenerate(e)
  \/ \E i \in 1..MaxImages : RunUpload(e, i)
  \/ \E i \in 1..MaxImages : RunAppend(e, i)
  \/ \E i \in 1..MaxImages : RunUploadFails(e, i)
  \/ RunSaveToCache(e)
  \/ RunMarkJobSucceeded(e)
  \/ RunMarkKeySuccess(e)
  \/ RunWebhook(e)
  \/ RunCatch(e)
  \/ RunMarkKeyFailure(e)
  \/ RunFinallyKey(e)
  \/ RunFinallyTenant(e)
  \/ RunFinallyGlobal(e)
  \/ Settle(e)

\* --------------------- intake, cancel and workers, within one rate window
Init ==
  /\ clock = 0
  /\ InitRpmIdle
  /\ rpmLimit = 1
  /\ InitHealthIdle
  /\ InitDeploy(UnitPlan, UnitPlan)
  /\ keyRow = KeyRowsOf(UnitPlan, UnitPlan)
  /\ InitExecIdle

Next ==
  \/ \E e \in Entries : RunStep(e)
  \/ \E r \in Requests, t \in Tenants, key \in IdempotencyKeys : GenerateLookup(r, t, key)
  \/ \E r \in Requests : GenerateCreate(r)
  \/ \E t \in Tenants, j \in 1..MaxJobs : CancelRead(t, j)
  \/ CancelWrite
  \/ Age

Spec == Init /\ [][Next]_vars

\* ------------------ workers on one job, within one rate window of wide limits
\* the limits of the deployment: room for five runs in the window, one token
\* per key and per tenant
WindowRpmPlan == [global |-> 5, key |-> 3, tenant |-> 1]
WindowConcPlan == [global |-> 2, key |-> 1, tenant |-> 1]

WaitingEntry(jobId) == [jobId |-> jobId, attemptsMade |-> 0, state |-> "waiting"]

\* one row, put on the queue once or, by repeated submissions with its
\* idempotency key while it was QUEUED and young, several times
InitWorkers ==
  /\ clock = 0
  /\ InitRpmIdle
  /\ rpmLimit = 1
  /\ InitHealthIdle
  /\ InitDeploy(WindowRpmPlan, WindowConcPlan)
  /\ keyRow = KeyRowsOf(WindowRpmPlan, WindowConcPlan)
  /\ inflight = [s \in Scopes |-> Absent]
  /\ jobs = <<NewJob(1, "k1")>>
  /\ fresh = {}
  /\ \E n \in 1..MaxEntries : queue = [i \in 1..n |-> WaitingEntry(1)]
  /\ InitIntakeIdle
  /\ InitWorkersIdle

NextWorkers ==
  \/ \E e \in Entries : RunStep(e)
  \/ \E t \in Tenants, j \in 1..MaxJobs : CancelRead(t, j)
  \/ CancelWrite

SpecWorkers == InitWorkers /\ [][NextWorkers]_vars

\* ------------------------------- one queue entry, its runs and the clock
ScopeName(s) == s[1]
ScopeNames == {"global", "key", "tenant"}

\* the scopes named hold a token of a run of another worker
HeldElsewhere(names) ==
  [s \in Scopes |-> IF ScopeName(s) \in names
                      THEN [v |-> 1, px |-> InflightTtlTicks] ELSE Absent]

\* the scopes named have admitted a run of another worker at time 0
AdmittedElsewhere(names) ==
  [s \in Scopes |-> IF ScopeName(s) \in names THEN ZADD(EmptyZset, 0) ELSE EmptyZset]

InitRun ==
  /\ clock = 0
  /\ InitCallersIdle
  /\ rpmLimit = 1
  /\ InitHealthIdle
  /\ InitDeploy(UnitPlan, UnitPlan)
  /\ \E enabled \in BOOLEAN :
       keyRow = [k \in ProviderKeys |->
                   [KeyRowsOf(UnitPlan, UnitPlan)[k] EXCEPT !.enabled = enabled]]
  /\ \E names \in SUBSET ScopeNames : inflight = HeldElsewhere(names)
  /\ \E names \in SUBSET ScopeNames : zset = AdmittedElsewhere(names)
  /\ \E status \in {"QUEUED", "CANCELED"} :
       jobs = <<[NewJob(1, "k1") EXCEPT !.status = status]>>
  /\ fresh = {}
  /\ queue = <<WaitingEntry(1)>>
  /\ InitIntakeIdle
  /\ InitWorkersIdle

NextRun ==
  \/ \E e \in Entries : RunStep(e)
  \/ Tick

SpecRun == InitRun /\ [][NextRun]_vars

\* -------- three jobs of a tenant with plan_rpm 2, processed within a second
BackoffJobs == 3
BackoffPlanRpm == 2

\* room for every attempt of every job in the other limits
BackoffRpmPlan ==
  [global |-> BackoffJobs * QueueAttempts, key |-> BackoffJobs * QueueAttempts,
   tenant |-> BackoffPlanRpm]
BackoffConcPlan == [global |-> BackoffJobs, key |-> BackoffJobs, tenant |-> BackoffJobs]

\* the exponential backoff of the queue: the delay after attemptsMade failed
\* attempts, and the delays of all the retries of an entry together
BackoffSec(attemptsMade) == BackoffDelaySec * 2 ^ (attemptsMade - 1)
TotalBackoffSec == BackoffDelaySec * (2 ^ (QueueAttempts - 1) - 1)

\* a tick of the clock in seconds; the last tick an attempt of the three jobs
\* can fall in, the first attempts being made in tick 0 and the later ones
\* within TotalBackoffSec of them
TickSec == RpmWindowSec \div WindowTicks
LastAttemptTick == (TickSec + TotalBackoffSec) \div TickSec

Unsettled(e) == Queued(e) /\ Entry(e).state \in {"waiting", "active"}

InitBackoff ==
  /\ clock = 0
  /\ InitRpmIdle
  /\ rpmLimit = 1
  /\ InitHealthIdle
  /\ InitDeploy(BackoffRpmPlan, BackoffConcPlan)
  /\ keyRow = KeyRowsOf(BackoffRpmPlan, BackoffConcPlan)
  /\ inflight = [s \in Scopes |-> Absent]
  /\ jobs = [j \in 1..BackoffJobs |-> NewJob(1, "none")]
  /\ fresh = {}
  /\ queue = [j \in 1..BackoffJobs |-> WaitingEntry(j)]
  /\ InitIntakeIdle
  /\ run = [e \in 1..BackoffJobs |-> IdleRun]
  /\ cache = {}
  /\ webhooks = <<>>

\* a step of a run in which neither the provider nor the storage fails; the
\* worker takes one entry at a time
RunStepOk(e) ==
  /\ \A f \in DOMAIN run : f # e => run[f].pc = "idle"
  /\ RunStep(e)
  /\ run'[e].err.kind \in {"none", "Error"}

\* the clock passes to its next tick; while an entry has an attempt left,
\* only as far as the backoff delays reach
BackoffTick ==
  /\ (\E e \in 1..BackoffJobs : Unsettled(e)) => clock + 1 <= LastAttemptTick
  /\ Tick

NextBackoff ==
  \/ \E e \in 1..BackoffJobs : RunStepOk(e)
  \/ BackoffTick

SpecBackoff == InitBackoff /\ [][NextBackoff]_vars

\* ------------------------------------ one job, its runs and a poller
InitPoll ==
  /\ clock = 0
  /\ InitRpmIdle
  /\ rpmLimit = 1
  /\ InitHealthIdle
  /\ InitDeploy(UnitPlan, UnitPlan)
  /\ keyRow = KeyRowsOf(UnitPlan, UnitPlan)
  /\ inflight = [s \in Scopes |-> Absent]
  /\ jobs = <<NewJob(1, "k1")>>
  /\ fresh = {}
  /\ queue = <<WaitingEntry(1)>>
  /\ InitIntakeIdle
  /\ InitWorkersIdle

NextPoll ==
  \/ \E e \in Entries : RunStep(e)
  \/ \E t \in Tenants, j \in 1..MaxJobs : GetJob(t, j)

SpecPoll == InitPoll /\ [][NextPoll]_vars

\* ------------------------------------ two tenants and the rows of each
\* a row of tenant 1 and a row of another tenant, each in any of the statuses
InitTenants ==
  /\ clock = 0
  /\ InitRpmIdle
  /\ rpmLimit = 1
  /\ InitHealthIdle
  /\ InitDeploy(UnitPlan, UnitPlan)
  /\ keyRow = KeyRowsOf(UnitPlan, UnitPlan)
  /\ inflight = [s \in Scopes |-> Absent]
  /\ \E s1, s2 \in ListedStatuses :
       jobs = <<[NewJob(1, "k1") EXCEPT !.status = s1],
                [NewJob(OtherTenant, "k2") EXCEPT !.status = s2]>>
  /\ fresh = {}
  /\ queue = <<>>
  /\ InitIntakeIdle
  /\ InitWorkersIdle

\* the ids of the two rows and an id no row has
NextTenants ==
  \/ \E t \in CallerTenants, j \in 1..3 : GetJob(t, j)
  \/ \E t \in CallerTenants, st \in ListedStatuses \cup {"none"} : ListJobs(t, st)
  \/ \E t \in CallerTenants, j \in 1..3 : CancelRead(t, j)
  \/ CancelWrite

SpecTenants == InitTenants /\ [][NextTenants]_vars

\* ---------------- one job after a worker crashed holding concurrency tokens
\* room in the rate windows for every attempt of the job
CrashRpmPlan == [global |-> QueueAttempts, key |-> QueueAttempts, tenant |-> QueueAttempts]

\* a worker that had been admitted on every counter, leaked times on each,
\* crashed before its finally block; the keys it incremented have LeakTtlLeft
\* of their TTL left
InitCrash ==
  /\ clock = 0
  /\ InitRpmIdle
  /\ rpmLimit = 1
  /\ InitHealthIdle
  /\ \E c \in 1..MaxLimit :
       /\ InitDeploy(CrashRpmPlan, [global |-> c, key |-> c, tenant |-> c])
       /\ keyRow = KeyRowsOf(CrashRpmPlan, [global |-> c, key |-> c, tenant |-> c])
       /\ \E leaked \in 1..c :
            inflight = [s \in Scopes |-> [v |-> leaked, px |-> LeakTtlLeft]]
  /\ jobs = <<NewJob(1, "k1")>>
  /\ fresh = {}
  /\ queue = <<WaitingEntry(1)>>
  /\ InitIntakeIdle
  /\ InitWorkersIdle

NextCrash ==
  \/ \E e \in Entries : RunStepOk(e)
  \/ Tick

SpecCrash == InitCrash /\ [][NextCrash]_vars

\* ------------- one job run with a provider key whose secret is any API key
InitSecret ==
  /\ clock = 0
  /\ InitRpmIdle
  /\ rpmLimit = 1
  /\ InitHealthIdle
  /\ InitDeploy(UnitPlan, UnitPlan)
  /\ \E secret \in ApiKeys :
       keyRow = [k \in ProviderKeys |->
                   [KeyRowsOf(UnitPlan, UnitPlan)[k] EXCEPT !.encryptedKey = secret]]
  /\ inflight = [s \in Scopes |-> Absent]
  /\ jobs = <<NewJob(1, "k1")>>
  /\ fresh = {}
  /\ queue = <<WaitingEntry(1)>>
  /\ InitIntakeIdle
  /\ InitWorkersIdle

\* ------------- one job whose provider calls are answered with any status
InitFail ==
  /\ clock = 0
  /\ InitRpmIdle
  /\ rpmLimit = 1
  /\ InitHealthIdle
  /\ InitDeploy(CrashRpmPlan, UnitPlan)
  /\ keyRow = KeyRowsOf(CrashRpmPlan, UnitPlan)
  /\ inflight = [s \in Scopes |-> Absent]
  /\ jobs = <<NewJob(1, "k1")>>
  /\ fresh = {}
  /\ queue = <<WaitingEntry(1)>>
  /\ InitIntakeIdle
  /\ InitWorkersIdle

NextFail ==
  \/ \E e \in Entries : RunStep(e)
  \/ \E e \in Entries : RunGeminiAnswer(e)

SpecFail == InitFail /\ [][NextFail]_vars

\* ------------------- submissions with one body, one after the other is over
\* room in the rate window for every job
CacheRpmPlan ==
  [global |-> MaxLaterJobs + 1, key |-> MaxLaterJobs + 1, tenant |-> MaxLaterJobs + 1]

\* the bodies: draft or final mode, a prompt of 9 or of 10 characters
Bodies == [mode : {"draft", "final"}, promptLength : {9, 10}]

BodyJob(body) ==
  [NewJob(1, "none") EXCEPT !.mode = body.mode, !.promptLength = body.promptLength]

InitCache ==
  /\ clock = 0
  /\ InitRpmIdle
  /\ rpmLimit = 1
  /\ InitHealthIdle
  /\ InitDeploy(CacheRpmPlan, UnitPlan)
  /\ keyRow = KeyRowsOf(CacheRpmPlan, UnitPlan)
  /\ inflight = [s \in Scopes |-> Absent]
  /\ \E body \in Bodies : jobs = <<BodyJob(body)>>
  /\ fresh = {}
  /\ queue = <<WaitingEntry(1)>>
  /\ InitIntakeIdle
  /\ InitWorkersIdle

\* POST /v1/images/generate with no Idempotency-Key and the body of the first
\* submission, sent when the entries before it are over: createJob inserts the
\* row and the controller adds it to the queue
GenerateSame ==
  /\ Len(jobs) < MaxLaterJobs + 1
  /\ Len(queue) < MaxEntries
  /\ \A e \in 1..Len(queue) : queue[e].state \in {"completed", "failed"}
  /\ jobs' = Append(jobs, BodyJob(jobs[1]))
  /\ fresh' = fresh \cup {Len(jobs) + 1}
  /\ queue' = generateQueueAdd(Len(jobs) + 1)
  /\ UNCHANGED <<clock, zset, storeHealthVars, intakeVars, inflight, run, cache,
                 webhooks>>
  /\ ExecFrame

NextCache ==
  \/ \E e \in Entries : RunStep(e)
  \/ GenerateSame

SpecCache == InitCache /\ [][NextCache]_vars

\* ------------------------------------------------- the webhook worker
HookFrame ==
  /\ UNCHANGED <<clock, zset, storeHealthVars, intakeVars, inflight, jobs, fresh,
                 queue, run, cache>>
  /\ ExecFrame

\* the worker takes a waiting entry, loads the job row and the tenant; it
\* returns at once when the tenant has no webhook configured
WebhookLoad(i) ==
  /\ i \in 1..Len(webhooks)
  /\ webhooks[i].state = "waiting"
  /\ LET tenant == tenantRow[jobs[webhooks[i].jobId].tenantId]
     IN  webhooks' = [webhooks EXCEPT ![i].state =
                        IF tenant.webhookEnabled THEN "active" ELSE "completed"]
  /\ HookFrame

\* the key HMAC works with: a secret longer than the block is replaced by its
\* hash, a shorter one is filled up to the block with zero bytes
KeyPrep(secret) ==
  IF Len(secret) > BlockSize
    THEN [hashed |-> TRUE, bytes |-> secret]
    ELSE [hashed |-> FALSE,
          bytes |-> secret \o [i \in 1..(BlockSize - Len(secret)) |-> 0]]

\* variant: the digest does not depend on the secret
hmacSha256Hex_NoKey(payload, secret) ==
  [key |-> KeyPrep(DefaultSecret), data |-> payload]

\* createHmac('sha256', secret).update(payload).digest('hex'): the digest is
\* told by the prepared key and the data (no two of them collide)
hmacSha256Hex(payload, secret) ==
  [key |-> KeyPrep(secret), data |-> payload]

\* the payload the webhook worker builds for event i from the job row
WebhookPayload(i) ==
  LET jobId == webhooks[i].jobId
      dbJob == jobs[jobId]
  IN  [eventId |-> i, jobId |-> jobId, tenantId |-> dbJob.tenantId,
       status |-> IF dbJob.status = "SUCCEEDED" THEN "SUCCEEDED" ELSE "FAILED",
       resultUrls |-> dbJob.resultUrls,
       error |-> IF dbJob.status = "FAILED"
                   THEN <<[code |-> dbJob.errorCode, message |-> dbJob.errorMessage]>>
                   ELSE <<>>,
       timestamp |-> clock]

\* JSON.stringify(payload): the members in order, an undefined one left out
JSONstringify(payload) ==
  [k \in IF payload.error = <<>> THEN DOMAIN payload \ {"error"} ELSE DOMAIN payload
     |-> payload[k]]

\* the request sendWebhook posts: the body and its X-Signature header
sendWebhook(secret, payload) ==
  LET body == JSONstringify(payload)
  IN  [body |-> body,
       signature |-> [prefix |-> "sha256=", hex |-> hmacSha256Hex(body, secret)]]

\* verifyWebhookSignature: equal lengths and a zero XOR of all bytes, that is
\* the signature is the expected one
verifyWebhookSignature(rawBody, signature, secret) ==
  LET expectedSig == [prefix |-> "sha256=", hex |-> hmacSha256Hex(rawBody, secret)]
  IN  signature = expectedSig

\* the outcomes of the POST of sendWebhook: a 2xx response, another response,
\* a network error or the abort after the timeout
PostOutcomes == {"2xx", "non2xx", "error"}

\* the request of event i: the payload signed with the tenant's secret
WebhookRequest(i) ==
  sendWebhook(tenantRow[jobs[webhooks[i].jobId].tenantId].webhookSecret,
              WebhookPayload(i))

\* variant: the entry is retried once more than its attempts option says
WebhookSend_OneMore(i, outcome) ==
  /\ i \in 1..Len(webhooks)
  /\ webhooks[i].state = "active"
  /\ webhooks' = [webhooks EXCEPT ![i] =
       IF outcome = "2xx"
         THEN [@ EXCEPT !.state = "completed", !.posts = @ + 1, !.last = outcome,
                        !.sent = WebhookRequest(i)]
         ELSE [@ EXCEPT !.attemptsMade = @ + 1, !.posts = @ + 1, !.last = outcome,
                        !.sent = WebhookRequest(i),
                        !.state = IF webhooks[i].attemptsMade + 1 <= WebhookAttempts
                                    THEN "waiting" ELSE "failed"]]
  /\ HookFrame

\* sendWebhook and the settling of the entry: completed after a 2xx response;
\* otherwise the processor throws and the queue retries the entry until
\* attemptsMade reaches its attempts option
WebhookSend(i, outcome) ==
  /\ i \in 1..Len(webhooks)
  /\ webhooks[i].state = "active"
  /\ webhooks' = [webhooks EXCEPT ![i] =
       IF outcome = "2xx"
         THEN [@ EXCEPT !.state = "completed", !.posts = @ + 1, !.last = outcome,
                        !.sent = WebhookRequest(i)]
         ELSE [@ EXCEPT !.attemptsMade = @ + 1, !.posts = @ + 1, !.last = outcome,
                        !.sent = WebhookRequest(i),
                        !.state = IF webhooks[i].attemptsMade + 1 < WebhookAttempts
                                    THEN "waiting" ELSE "failed"]]
  /\ HookFrame

\* a job has SUCCEEDED and its runs have enqueued webhook events; the tenant
\* may have switched its webhook off since
InitWebhook ==
  /\ clock = 0
  /\ InitRpmIdle
  /\ rpmLimit = 1
  /\ InitHealthIdle
  /\ config = [globalRpm |-> 1, globalConcurrency |-> 1]
  /\ \E enabled \in BOOLEAN :
       tenantRow = [t \in Tenants |->
                      [planRpm |-> 1, planConcurrency |-> 1, webhookEnabled |-> enabled,
                       webhookSecret |-> DefaultSecret]]
  /\ keyRow = KeyRowsOf(UnitPlan, UnitPlan)
  /\ inflight = [s \in Scopes |-> Absent]
  /\ jobs = <<[markJobSucceeded(NewJob(1, "k1"), <<ImageUrl(1)>>) EXCEPT !.providerKeyId = 1]>>
  /\ fresh = {}
  /\ queue = <<[WaitingEntry(1) EXCEPT !.state = "completed"]>>
  /\ InitIntakeIdle
  /\ run = [e \in Entries |-> IdleRun]
  /\ cache = {}
  /\ \E n \in 1..MaxHooks : webhooks = [i \in 1..n |-> WebhookEvent(1)]

NextWebhook ==
  \/ \E i \in 1..MaxHooks : WebhookLoad(i)
  \/ \E i \in 1..MaxHooks, outcome \in PostOutcomes : WebhookSend(i, outcome)

SpecWebhook == InitWebhook /\ [][NextWebhook]_vars

\* one event of a job that SUCCEEDED or FAILED; the tenant has a webhook
\* with any secret
InitSign ==
  /\ clock = 0
  /\ InitRpmIdle
  /\ rpmLimit = 1
  /\ InitHealthIdle
  /\ config = [globalRpm |-> 1, globalConcurrency |-> 1]
  /\ \E secret \in Secrets :
       tenantRow = [t \in Tenants |->
                      [planRpm |-> 1, planConcurrency |-> 1, webhookEnabled |-> TRUE,
                       webhookSecret |-> secret]]
  /\ keyRow = KeyRowsOf(UnitPlan, UnitPlan)
  /\ inflight = [s \in Scopes |-> Absent]
  /\ \E row \in {markJobSucceeded(NewJob(1, "k1"), <<ImageUrl(1)>>),
                  markJobFailed(NewJob(1, "k1"), "PROVIDER_ERROR", "Gemini API error", FALSE)} :
       jobs = <<[row EXCEPT !.providerKeyId = 1]>>
  /\ fresh = {}
  /\ queue = <<[WaitingEntry(1) EXCEPT !.state = "completed"]>>
  /\ InitIntakeIdle
  /\ run = [e \in Entries |-> IdleRun]
  /\ cache = {}
  /\ webhooks = <<WebhookEvent(1)>>

SpecSign == InitSign /\ [][NextWebhook]_vars

\* the runs of the job, the polls of its row and the webhook worker
NextSecret ==
  \/ \E e \in Entries : RunStep(e)
  \/ \E t \in Tenants, j \in 1..MaxJobs : GetJob(t, j)
  \/ \E i \in 1..MaxHooks : WebhookLoad(i)
  \/ \E i \in 1..MaxHooks, outcome \in PostOutcomes : WebhookSend(i, outcome)

SpecSecret == InitSecret /\ [][NextSecret]_vars

\* ------------------------------------------------ properties of one run
Range(seq) == {seq[i] : i \in 1..Len(seq)}

\* number of occurrences of an event in a trace
Count(tr, event) == Cardinality({i \in 1..Len(tr) : tr[i] = event})

\* position of a scope in the order global, key, tenant
AcquireRank(name) == IF name = "global" THEN 1 ELSE IF name = "key" THEN 2 ELSE 3

\* position of a scope in the order key, tenant, global
FinallyRank(name) == IF name = "key" THEN 1 ELSE IF name = "tenant" THEN 2 ELSE 3

\* position of a scope in the order tenant, key, global
ReverseRank(name) == IF name = "tenant" THEN 1 ELSE IF name = "key" THEN 2 ELSE 3

\* the rpm and concurrency admissions come in the order global, key, tenant
\* and before every release
AcquiredInOrder(tr) ==
  \A a, b \in 1..Len(tr) :
    (a < b /\ tr[b].op # "release") =>
      /\ tr[a].op # "release"
      /\ AcquireRank(tr[a].scope) <= AcquireRank(tr[b].scope)

Finished(e) == run[e].pc = "end"

C6_ReleaseExactlyAdmitted ==
  \A e \in Entries :
    Finished(e) =>
      \A name \in ScopeNames :
        Count(run[e].trace, Release(name)) =
          (IF Conc(name, TRUE) \in Range(run[e].trace) THEN 1 ELSE 0)

\* Original statement of C9 (violated: a run denied by a global limiter throws
\* before the try block, so the row is left as it was and the error still
\* reaches the queue).
\* C9: when a run has ended with an error and the row had attempts = a, the
\* run has set attempts to a+1 and the status to RETRYING if the error is
\* retryable and a+1 < maxAttempts, to FAILED otherwise, and it has re-raised
\* the error exactly if it set RETRYING.
C9_FailureBookkeeping ==
  \A e \in Entries :
    (Finished(e) /\ run[e].err # NoErr) =>
      LET a == run[e].dbJob.attempts
          retry == CatchRetryable(run[e].err) /\ a + 1 < run[e].dbJob.maxAttempts
      IN  /\ run[e].mark.attempts = a + 1
          /\ run[e].mark.status = (IF retry THEN "RETRYING" ELSE "FAILED")
          /\ run[e].thrown <=> run[e].mark.status = "RETRYING"

\* Original statement of C10 (violated: GLOBAL_RATE_LIMIT and GLOBAL_CONC_LIMIT
\* are thrown before the try block and never reach markJobFailed).
\* C10: when a run has ended by an admission denial, it has incremented the
\* row's attempts by one and recorded the denial's code and message.
C10_DenialRecorded ==
  \A e \in Entries :
    (Finished(e) /\ run[e].err.msg \in AdmissionCodes) =>
      /\ run[e].mark.attempts = run[e].dbJob.attempts + 1
      /\ run[e].mark.code = run[e].err.msg
      /\ run[e].mark.msg = run[e].err.msg

\* ------------------------------------------------ properties of the workers
\* the run is between its admission on the key's counter and its end
HoldsKey(e, k) ==
  /\ run[e].pc \notin {"idle", "end"}
  /\ run[e].key = k
  /\ Conc("key", TRUE) \in Range(run[e].trace)
  /\ Release("key") \notin Range(run[e].trace)

\* Original statement of C2 (violated: a run denied on the key counter, or on
\* a later limiter, releases the key counter it does not hold, see C6; the
\* next run is admitted while the holder is still running).
\* C2: for every key the number of runs between a successful admit on the
\* key's concurrency counter and their end is at most concurrencyLimit.
C2_KeyConcurrencyBound ==
  \A k \in ProviderKeys :
    Cardinality({e \in Entries : HoldsKey(e, k)}) <= keyRow[k].concurrencyLimit

\* Original statement of C5 (violated: a row that was put on the queue twice
\* is run by both entries; markJobFailed adds one to attempts on every failed
\* run, whatever attempts is).
\* C5: every job row has attempts <= maxAttempts.
C5_AttemptsBound ==
  \A j \in JobIds : jobs[j].attempts <= jobs[j].maxAttempts

\* ------------------------------------------------- properties of the intake
\* Original statement of C3 (violated: createJob looks the key up and inserts
\* in two steps; of two concurrent submissions the second insert fails on the
\* unique index and the request fails).
\* C3: every submission with an idempotency key that has been answered was
\* answered with the id of the one row of its tenant and key.
C3_IdempotentSubmissions ==
  \A r \in Requests :
    (reqPc[r] = "idle" /\ reqArg[r].idempotencyKey # "none"
       /\ (resp[r].status # 0 \/ resp[r].jobId # 0)) =>
      /\ resp[r].status = 202
      /\ resp[r].jobId = FindByIdempotencyKey(reqArg[r].tenantId, reqArg[r].idempotencyKey)
      /\ Cardinality({j \in JobIds : /\ jobs[j].tenantId = reqArg[r].tenantId
                                     /\ jobs[j].idempotencyKey = reqArg[r].idempotencyKey}) = 1

\* Original statement of C4 (violated: markJobRunning, markJobFailed and
\* markJobSucceeded update the row whatever its status; the run checks for
\* CANCELED only when it loads the row).
\* C4: a step from a state in which a row is SUCCEEDED, FAILED or CANCELED
\* leaves the row's status, resultUrls, errorCode and attempts as they are.
C4_TerminalImmutable ==
  [][\A j \in JobIds :
       jobs[j].status \in Terminal =>
         /\ jobs'[j].status = jobs[j].status
         /\ jobs'[j].resultUrls = jobs[j].resultUrls
         /\ jobs'[j].errorCode = jobs[j].errorCode
         /\ jobs'[j].attempts = jobs[j].attempts]_vars

\* ------------------------------------------------ properties of one run (2)
\* Original statement of C11 (violated: getErrorCode turns the message into
\* NO_PROVIDER_KEY, which is not in the catch block's list of retryable codes,
\* and the plain Error matches none of the patterns of isRetryableError).
\* C11: when a run has ended because pickProviderKey returned no credential,
\* the failure was recorded with code NO_PROVIDER_KEY_AVAILABLE and, if
\* attempts+1 < maxAttempts, the row was set to RETRYING and the error was
\* re-raised.
C11_NoKeyRetryable ==
  \A e \in Entries :
    (Finished(e) /\ run[e].err = PlainError("NO_PROVIDER_KEY_AVAILABLE")) =>
      /\ run[e].mark.code = "NO_PROVIDER_KEY_AVAILABLE"
      /\ (run[e].dbJob.attempts + 1 < run[e].dbJob.maxAttempts) =>
            (run[e].mark.status = "RETRYING" /\ run[e].thrown)

\* C14: a run that loads a row whose status is CANCELED ends in that step,
\* with no limiter call, no credential, no provider call and no failure
\* recorded, and the step leaves the job rows, the limiter keys, the key
\* health, the cache and the webhook queue as they are; the run then does
\* nothing but return to the queue.
C14_CanceledAtLoad ==
  [][\A e \in Entries :
       /\ (/\ run[e].pc = "idle"
           /\ run'[e].pc # "idle"
           /\ run'[e].dbJob.status = "CANCELED") =>
            /\ run'[e] = [IdleRun EXCEPT !.dbJob = run'[e].dbJob, !.pc = "end"]
            /\ UNCHANGED <<jobs, zset, inflight, cache, webhooks, storeHealthVars>>
       /\ (run[e].pc = "end" /\ run[e].dbJob.status = "CANCELED") =>
            run'[e] \in {run[e], IdleRun}]_vars

\* a run has loaded a CANCELED row and ended
C14_Witness ==
  \E e \in Entries : run[e].pc = "end" /\ run[e].dbJob.status = "CANCELED"

\* ------------------------------------------------ properties of the cancel
\* Original statement of C12 (violated: a run that loaded the row before the
\* cancel goes on, sets the row RUNNING, then SUCCEEDED or FAILED, and
\* enqueues the webhook).
\* C12: from a state in which the last DELETE on job j was answered 200 with
\* status CANCELED, every step leaves j's status CANCELED and enqueues no
\* webhook event for j.
C12_CanceledStays ==
  [][\A j \in JobIds :
       (cancelResp.status = 200 /\ cancelResp.jobId = j) =>
         /\ jobs'[j].status = "CANCELED"
         /\ HooksOf(webhooks', j) = HooksOf(webhooks, j)]_vars

\* Original statement of C13 (violated: cancelJob reads the status and writes
\* CANCELED in two steps; a run that sets the row RUNNING between them is
\* overwritten, and the DELETE answers 200).
\* C13: a step that sets a row to CANCELED starts from QUEUED or RETRYING, and
\* a DELETE answered while the row is RUNNING, SUCCEEDED or FAILED is answered
\* 400 INVALID_STATE.
C13_CancelOnlyWaiting ==
  [][\A j \in JobIds :
       /\ (jobs[j].status # "CANCELED" /\ jobs'[j].status = "CANCELED") =>
            jobs[j].status \in {"QUEUED", "RETRYING"}
       /\ (/\ cancelResp' # cancelResp
           /\ cancelResp'.status # 0
           /\ cancelResp'.jobId = j
           /\ jobs[j].status \in {"RUNNING", "SUCCEEDED", "FAILED"}) =>
            (cancelResp'.status = 400 /\ cancelResp'.error = "INVALID_STATE")]_vars

\* ------------------------------------------------ properties of resultUrls
IsPrefix(a, b) == Len(a) <= Len(b) /\ SubSeq(b, 1, Len(a)) = a

\* Original statement of C15 (violated: appendJobResultUrl writes the list it
\* read earlier with one url added, so of two uploads completing together one
\* url is lost; markJobSucceeded replaces the list by the urls of this run in
\* index order).
\* C15: every step leaves the resultUrls of every row a prefix of the
\* resultUrls after the step.
C15_ResultUrlsAppendOnly ==
  [][\A j \in JobIds : IsPrefix(jobs[j].resultUrls, jobs'[j].resultUrls)]_vars

\* Original statement of C16 (violated: the urls appended by an attempt whose
\* later upload fails stay on the row; markJobFailed and cancelJob do not
\* touch resultUrls).
\* C16: every row whose status is SUCCEEDED, FAILED or CANCELED has an empty
\* resultUrls exactly if its status is not SUCCEEDED.
C16_UrlsIffSucceeded ==
  \A j \in JobIds :
    jobs[j].status \in Terminal =>
      (jobs[j].resultUrls = <<>> <=> jobs[j].status # "SUCCEEDED")

\* ------------------------------------------------ properties of the cache
UsesCache(row) == row.mode = "final" /\ row.promptLength >= 10

\* an earlier job with the body of the job of entry e has SUCCEEDED
SucceededBefore(e, j1) ==
  /\ Queued(e)
  /\ j1 \in JobIds
  /\ j1 < Entry(e).jobId
  /\ jobs[j1].status = "SUCCEEDED"
  /\ jobs[j1].mode = jobs[Entry(e).jobId].mode
  /\ jobs[j1].promptLength = jobs[Entry(e).jobId].promptLength

\* Original statement of C17 (violated: cacheResult stores the entry under the
\* key of the prompt hash and the model, checkCache looks under the key of the
\* prompt and no model, so no entry is ever found).
\* C17: a run for a final-mode job with a prompt of 10 characters or more,
\* processed after a job with the same body has SUCCEEDED, never reaches the
\* provider call, and when it has passed its admissions and ended without
\* error it had a cache hit and the row holds the first job's resultUrls.
C17_SecondJobHitsCache ==
  \A e \in Entries : \A j1 \in JobIds :
    (SucceededBefore(e, j1) /\ UsesCache(jobs[j1])) =>
      /\ run[e].pc \notin {"geminiGenerate", "upload"}
      /\ (/\ Finished(e)
          /\ run[e].err = NoErr
          /\ Conc("tenant", TRUE) \in Range(run[e].trace)) =>
           (/\ run[e].cacheHit
            /\ jobs[Entry(e).jobId].resultUrls = jobs[j1].resultUrls)

\* C18: a step of a run for a job in draft mode, or with a prompt shorter
\* than 10 characters, leaves the cache as it is and is no cache hit.
C18_NoCacheForDraftOrShort ==
  [][\A e \in Entries :
       (/\ run'[e] # run[e]
        /\ run[e].pc # "idle"
        /\ ~UsesCache(run[e].dbJob)) =>
         (cache' = cache /\ ~run'[e].cacheHit)]_vars

\* a run for a draft or short-prompt job has stored its images and ended,
\* after an earlier job with the same body succeeded
C18_Witness ==
  \E e \in Entries : \E j1 \in JobIds :
    /\ SucceededBefore(e, j1)
    /\ ~UsesCache(jobs[j1])
    /\ Finished(e)
    /\ run[e].err = NoErr
    /\ run[e].urls # <<>>

\* ---------------------------------------------- properties of the webhooks
\* Original statement of C19 (violated: the failure webhook is enqueued only
\* if the error is not retryable; a retryable error on the last allowed
\* attempt sets the row FAILED and enqueues nothing).
\* C19: for a tenant with a webhook, the rest of the catch block after
\* markJobFailed enqueues one webhook event for the job if the row was set to
\* FAILED and none if it was set to RETRYING, and the finally block enqueues
\* none.
C19_FailedWebhookOnce ==
  [][\A e \in Entries :
       (Queued(e) /\ run'[e] # run[e] /\ run[e].dbJob # NoJob) =>
         LET j == Entry(e).jobId
             added == HooksOf(webhooks', j) - HooksOf(webhooks, j)
         IN  /\ (run[e].pc = "markKeyFailure"
                   /\ tenantRow[run[e].dbJob.tenantId].webhookEnabled) =>
                  added = (IF run[e].mark.status = "FAILED" THEN 1 ELSE 0)
             /\ (run[e].pc \in {"finallyKey", "finallyTenant", "finallyGlobal"}) =>
                  added = 0]_vars

\* C20: for every webhook event at most 8 POSTs are made; a 2xx response
\* completes the event; any other outcome leaves it to be retried while fewer
\* than 8 attempts were made and fails it at the 8th; a completed or failed
\* event is never changed again.
C20_WebhookAttemptsCapped ==
  [][\A i \in 1..Len(webhooks) :
       LET ev == webhooks[i]
           next == webhooks'[i]
       IN  /\ next.posts <= WebhookAttempts
           /\ ev.state \in {"completed", "failed"} => next = ev
           /\ next.posts > ev.posts =>
                next.state = (IF next.last = "2xx" THEN "completed"
                              ELSE IF next.posts < WebhookAttempts THEN "waiting"
                              ELSE "failed")]_vars

\* an event has failed after 8 POSTs
C20_Witness ==
  \E i \in 1..Len(webhooks) :
    webhooks[i].state = "failed" /\ webhooks[i].posts = WebhookAttempts
\* ------------------------------------------- properties of the signature
\* the bodies a receiver may be handed: those of the payloads of one event
WireBodies ==
  {JSONstringify([eventId |-> 1, jobId |-> 1, tenantId |-> 1, status |-> st,
                  resultUrls |-> urls, error |-> err, timestamp |-> ts]) :
     st \in {"SUCCEEDED", "FAILED"}, urls \in {<<>>, <<ImageUrl(1)>>},
     err \in {<<>>, <<[code |-> "PROVIDER_ERROR", message |-> "Gemini API error"]>>},
     ts \in 0..1}

\* the events a POST was made for
Posted == {i \in 1..Len(webhooks) : webhooks[i].posts > 0}

SecretOf(i) == tenantRow[jobs[webhooks[i].jobId].tenantId].webhookSecret

\* C21 as stated: the X-Signature of a posted request is "sha256=" and the
\* HMAC of the body sent; verifyWebhookSignature accepts it, and rejects it
\* for every other body and for every other secret
C21_Original ==
  \A i \in Posted :
    LET req == webhooks[i].sent
    IN  /\ req.signature = [prefix |-> "sha256=", hex |-> hmacSha256Hex(req.body, SecretOf(i))]
        /\ verifyWebhookSignature(req.body, req.signature, SecretOf(i))
        /\ \A b \in WireBodies :
             b # req.body => ~verifyWebhookSignature(b, req.signature, SecretOf(i))
        /\ \A s \in Secrets :
             s # SecretOf(i) => ~verifyWebhookSignature(req.body, req.signature, s)

\* C21: the X-Signature of a posted request is "sha256=" and the HMAC of the
\* body sent; verifyWebhookSignature accepts it, rejects it for every other
\* body, and rejects it for every secret that is another key once HMAC has
\* prepared it (hashed when longer than the block, else filled with zeros)
C21_SignatureBindsBodyAndKey ==
  \A i \in Posted :
    LET req == webhooks[i].sent
    IN  /\ req.signature = [prefix |-> "sha256=", hex |-> hmacSha256Hex(req.body, SecretOf(i))]
        /\ verifyWebhookSignature(req.body, req.signature, SecretOf(i))
        /\ \A b \in WireBodies :
             b # req.body => ~verifyWebhookSignature(b, req.signature, SecretOf(i))
        /\ \A s \in Secrets :
             KeyPrep(s) # KeyPrep(SecretOf(i)) =>
               ~verifyWebhookSignature(req.body, req.signature, s)

\* a request was delivered whose body is one of several a receiver may be
\* handed, signed with a secret that other secrets differ from as keys
C21_Witness ==
  \E i \in Posted :
    /\ webhooks[i].last = "2xx"
    /\ webhooks[i].sent.body \in WireBodies
    /\ \E b \in WireBodies : b # webhooks[i].sent.body
    /\ \E s \in Secrets : KeyPrep(s) # KeyPrep(SecretOf(i))

\* ---------------------------------------------- properties of the backoff
\* C22: with plan_rpm 2 and three jobs processed within one second, the
\* provider always succeeding, the job that fails admission with
\* TENANT_RATE_LIMIT is marked RETRYING and ends SUCCEEDED: once its queue
\* entry has no attempt left, its row is SUCCEEDED
C22_DeniedJobSucceedsLater ==
  \A e \in 1..Len(queue) :
    /\ (run[e].pc = "markKeyFailure" /\ run[e].mark.code = "TENANT_RATE_LIMIT"
          /\ run[e].dbJob.attempts = 0) => run[e].mark.status = "RETRYING"
    /\ (jobs[Entry(e).jobId].attempts > 0 /\ ~Unsettled(e)) =>
          jobs[Entry(e).jobId].status = "SUCCEEDED"

\* ------------------------------------------ properties of the provider call
\* the answers of the endpoints in which the current one is overloaded and a
\* fallback endpoint other than it succeeds
OverloadWithFallback(answers) ==
  /\ answers[DefaultEndpoint] = 503
  /\ \E i \in 1..Len(FallbackEndpoints) :
       /\ FallbackEndpoints[i] # DefaultEndpoint
       /\ answers[FallbackEndpoints[i]] = 200

\* C23: when the request through the current endpoint fails with 503 and
\* fallback is enabled, geminiGenerate returns SUCCEEDED with the endpoint of
\* a fallback endpoint that answered the re-issued request
C23_FallbackOnOverload ==
  \A e \in 1..Len(queue) :
    run[e].pc = "geminiGenerate" =>
      \A answers \in [Endpoints -> HttpStatuses] :
        OverloadWithFallback(answers) =>
          LET result == geminiGenerate(PickedKey(run[e].key).secret, DefaultEndpoint,
                                       answers, TRUE, FallbackEndpoints)
          IN  /\ ~result.thrown
              /\ result.status = "SUCCEEDED"
              /\ result.endpoint # DefaultEndpoint
              /\ answers[result.endpoint] = 200

\* ------------------------------------------------ properties of the pick
\* C24: the credential pickProviderKey returns to a run is enabled, is not in
\* cooldown, and its in-flight count, the counter the runs admit and release
\* for it, is below its concurrency limit when pickProviderKey reads it
C24_PickedKeyHasCapacity ==
  [][\A e \in 1..Len(queue) :
       (run[e].pc = "pick" /\ run'[e].pc = "keyRpm") =>
         LET k == run'[e].key
         IN  /\ keyRow[k].enabled
             /\ GET(kpCooldown[k]) <= clock
             /\ GET(inflight[KeyScope(k)]) < keyRow[k].concurrencyLimit]_vars

\* ------------------------------------------------ properties of the poll
\* C25: while a job is RUNNING, the answer of GET /v1/jobs/{id} has in
\* resultUrls every url appended to the job row by then
C25_PollSeesAppendedUrls ==
  [][(getResp' # getResp /\ getResp'.status = 200 /\ getResp'.jobStatus = "RUNNING") =>
       getResp'.resultUrls = jobs[getResp'.jobId].resultUrls]_vars

\* -------------------------------------- properties of the leaked tokens
\* the runs between their admission on the counter of a scope and its release
LiveHolders(s) ==
  Cardinality({e \in 1..Len(queue) :
     /\ run[e].pc \notin {"idle", "end"}
     /\ Conc(s[1], TRUE) \in Range(run[e].trace)
     /\ Release(s[1]) \notin Range(run[e].trace)
     /\ s[1] = "key" => run[e].key = s[2]})

\* C26: the counters a crashed worker left incremented do not stay elevated
\* for ever: while a counter is positive its key has a TTL that ends within
\* the TTL of the limiter; once the TTL the crashed worker's keys had left is
\* over, no counter is above the tokens the live runs hold, and an admit on a
\* scope with a free token succeeds
C26_LeakedTokenExpires ==
  \A s \in Scopes :
    /\ inflight[s].v > 0 =>
         (clock < inflight[s].px /\ inflight[s].px <= clock + InflightTtlTicks)
    /\ clock >= LeakTtlLeft =>
         /\ GET(inflight[s]) <= LiveHolders(s)
         /\ LiveHolders(s) < ConcLimit(s) => acquireConcurrency(s, ConcLimit(s)).ok

\* the crashed worker held the only token of the global counter, and a run
\* has been admitted on it after the key expired
C26_Witness ==
  /\ config.globalConcurrency = 1
  /\ clock >= LeakTtlLeft
  /\ \E e \in 1..Len(queue) :
       /\ Entry(e).attemptsMade > 0
       /\ Conc("global", TRUE) \in Range(run[e].trace)

\* ------------------------------------ properties of the credential secrets
\* the secrets of the provider keys
SecretValues == {keyRow[k].encryptedKey : k \in ProviderKeys}

\* the text is one of the secrets
Discloses(text) == text \in SecretValues

\* the error member of a webhook body or payload discloses a secret
ErrorDiscloses(error) ==
  \E n \in 1..Len(error) : Discloses(error[n].code) \/ Discloses(error[n].message)

C28_SettledJobIsTerminal ==
  \A e \in 1..Len(queue) :
    LET row == jobs[Entry(e).jobId]
    IN  /\ (Entry(e).state \in {"completed", "failed"} /\ row.status # "CANCELED") =>
             row.status \in {"SUCCEEDED", "FAILED"}
        /\ (Entry(e).state = "failed" /\ Entry(e).attemptsMade = QueueAttempts) =>
             row.status = "FAILED"

\* ------------------------------------------ properties of the enqueueing
\* the entries of the generate queue made for a job
EntriesOf(j) == {e \in 1..Len(queue) : queue[e].jobId = j}

\* C29: every job row created by POST /v1/images/generate has exactly one
\* entry on the generate queue, whatever submissions with its idempotency
\* key followed the one that created it
C29_EnqueuedExactlyOnce ==
  \A j \in JobIds : Cardinality(EntriesOf(j)) = 1

\* C30: the counter of a scope is not reset by the expiry of its key while a
\* run admitted on it holds its token: in every state the value of the
\* counter is at least the number of runs that hold a token of the scope
C30_CounterCoversHeldTokens ==
  \A s \in Scopes : GET(inflight[s]) >= LiveHolders(s)

\* ------------------------------------------ properties of the error codes
\* the statuses whose error a run has caught
StatusOf(error) == {st \in ProviderStatuses \ {200} : error = handleGeminiError(st)}

\* the code of the failure a run has caught, in the taxonomy of the errors
TaxonomyCodes(error) ==
  {providerCode(st) : st \in StatusOf(error)}
    \cup (IF error = PlainError("No images generated") THEN {"NO_IMAGES"} ELSE {})
    \cup (IF error = StorageError THEN {"STORAGE_ERROR"} ELSE {})
    \cup (IF error = PlainError("NO_PROVIDER_KEY_AVAILABLE")
            THEN {"NO_PROVIDER_KEY_AVAILABLE"} ELSE {})

\* C31: when a run has caught a failure of the provider call, of the blob
\* store or of the key pick and has marked the job, the errorCode on the job
\* row is the taxonomy code of that failure
C31_RowHasTaxonomyCode ==
  \A e \in 1..Len(queue) :
    (run[e].pc = "markKeyFailure" /\ TaxonomyCodes(run[e].err) # {}) =>
      jobs[Entry(e).jobId].errorCode \in TaxonomyCodes(run[e].err)

\* the errors of a provider response of HTTP 400 or 401 and of a response
\* that is ok and has no image; those of 429, 503 and another 5xx
FinalProviderErrors ==
  {handleGeminiError(400), handleGeminiError(401), PlainError("No images generated")}
RetryableProviderErrors ==
  {handleGeminiError(429), handleGeminiError(503), handleGeminiError(500)}

Eligible(pick) ==
  {k \in DOMAIN keyRow :
     /\ MatchesWhere(k, pick.preferredEndpoint, pick.allowFallback, pick.excludeEndpoints)
     /\ IsCandidate(k)}

\* a is strictly preferred to b under the stated order
StrictlyPreferred(a, b) ==
  IF a.isModelPreferred # b.isModelPreferred THEN a.isModelPreferred
  ELSE IF a.isPreferred # b.isPreferred THEN a.isPreferred
  ELSE IF a.priority # b.priority THEN a.priority < b.priority
  ELSE IF a.healthScore - b.healthScore > 10 THEN TRUE
  ELSE IF b.healthScore - a.healthScore > 10 THEN FALSE
  ELSE IF a.inFlight # b.inFlight THEN a.inFlight < b.inFlight
  ELSE a.failureRate < b.failureRate

C34_PreferredEndpointOnly ==
  (lastPick.made /\ lastPick.key # 0) =>
     /\ (lastPick.preferredEndpoint # "none" /\ ~lastPick.allowFallback) =>
          keyRow[lastPick.key].endpoint = lastPick.preferredEndpoint
     /\ keyRow[lastPick.key].endpoint \notin lastPick.excludeEndpoints

\* C35: a limiter call made when the store no longer holds the script under
\* the cached digest loads the script again and returns a normal result: no
\* acquireRpm, acquireConcurrency, releaseConcurrency or checkKeyHealth call
\* is rejected for a missing script
C35_DigestMissReloads ==
  scripts.op # "none" => ~scripts.threw

\* C36: under admits and releases in any order, with no expiry, the value of
\* an in-flight counter with limit N stays in 0..N; an admit is denied exactly
\* when the value is N and then leaves the value as it is, an admitted one
\* adds 1; a release on 0 leaves 0, any other release takes 1 off
C36_CounterStaysInRange ==
  /\ [](\A s \in Scopes : GET(inflight[s]) \in 0..ConcLimit(s))
  /\ [][\A s \in Scopes :
         /\ CallAcquireConcurrency(s, ConcLimit(s)) =>
              /\ acquireConcurrency(s, ConcLimit(s)).ok <=> GET(inflight[s]) < ConcLimit(s)
              /\ inflight'[s].v = IF GET(inflight[s]) = ConcLimit(s)
                                    THEN GET(inflight[s]) ELSE GET(inflight[s]) + 1
         /\ CallReleaseConcurrency(s) =>
              inflight'[s].v = IF GET(inflight[s]) = 0 THEN 0 ELSE GET(inflight[s]) - 1]_vars

\* every limit is 2 or more and an admit was just denied: a counter stands
\* at its limit
C36_Witness ==
  /\ scripts.op = "acquireConcurrency" /\ ~scripts.ok /\ ~scripts.threw
  /\ \A s \in Scopes : ConcLimit(s) >= 2
  /\ \E s \in Scopes : GET(inflight[s]) = ConcLimit(s)

\* C37: an acquireRpm call at time t with window W discards exactly the
\* entries with a timestamp below t - W and a denied call adds none: right
\* after the call the set holds the admitted calls of every time from t - W
\* on, the one at exactly t - W included, and nothing older
C37_TrimsBelowWindowOnly ==
  (scripts.op = "acquireRpm" /\ ~scripts.threw /\ scripts.at = clock) =>
     \A u \in Times :
       zset[GlobalScope][u] = IF u < clock - WindowTicks THEN 0 ELSE admitLog[u]

\* the credential is in cooldown: cooldown_until > now
InCooldown(k) == GET(kpCooldown[k]) > clock

\* C38: a success recorded on a credential leaves it without a failure
\* counter; a credential enters cooldown only with a failure that is the
\* threshold-th since the last success; a failure or a success reported while
\* the credential is in cooldown changes neither the counter nor cooldown_until
C38_ConsecutiveFailuresOnly ==
  [][\A k \in ProviderKeys :
       /\ MarkKeySuccess(k) => kpFailures'[k] = Absent
       /\ (~InCooldown(k) /\ InCooldown(k)') =>
            /\ \E n \in {1, FailureThreshold} : MarkKeyFailure(k, n)
            /\ consec[k] >= FailureThreshold - 1
       /\ (InCooldown(k) /\ (MarkKeySuccess(k)
                               \/ \E n \in {1, FailureThreshold} : MarkKeyFailure(k, n))) =>
            (kpFailures'[k] = kpFailures[k] /\ kpCooldown'[k] = kpCooldown[k])]_vars

\* a credential in cooldown on which a success has been reported since the
\* cooldown began
C38_Witness ==
  \E k \in ProviderKeys : InCooldown(k) /\ consec[k] = 0

\* the codes of the admissions made after the credential is picked
KeyedDenialCodes ==
  {"KEY_RATE_LIMIT", "KEY_CONC_LIMIT", "TENANT_RATE_LIMIT", "TENANT_CONC_LIMIT"}

\* C39: a run that was denied admission (KEY_RATE_LIMIT, KEY_CONC_LIMIT,
\* TENANT_RATE_LIMIT, TENANT_CONC_LIMIT) leaves the failure counter and the
\* cooldown of the credential it picked as they are
C39_DenialIsNoKeyFailure ==
  [][\A e \in 1..Len(queue) :
       (RunMarkKeyFailure(e) /\ run[e].err.msg \in KeyedDenialCodes) =>
          (kpFailures' = kpFailures /\ kpCooldown' = kpCooldown)]_vars

\* the row exists and belongs to another tenant than the caller
OthersJob(t, j) == j \in JobIds /\ jobs[j].tenantId # t

\* C40: GET and DELETE /v1/jobs/{id} for a row of another tenant answer 404
\* and leave the rows as they are, the cancel going no further; a row changes
\* only by the cancel of a caller that owns it; GET /v1/jobs lists only rows
\* of the caller
C40_TenantSeesOwnJobsOnly ==
  [][/\ \A t \in CallerTenants, j \in 1..3 :
          /\ (GetJob(t, j) /\ OthersJob(t, j)) =>
               (getResp'.status = 404 /\ jobs' = jobs)
          /\ (CancelRead(t, j) /\ OthersJob(t, j)) =>
               (cancelResp'.status = 404 /\ cancelPc' = 0 /\ jobs' = jobs)
     /\ \A t \in CallerTenants, st \in ListedStatuses \cup {"none"} :
          ListJobs(t, st) =>
            \A i \in 1..Len(getResp'.items) : jobs[getResp'.items[i]].tenantId = t
     /\ (cancelPc = 0 /\ cancelPc' # 0) =>
          \E t \in CallerTenants :
            CancelRead(t, cancelPc') /\ jobs[cancelPc'].tenantId = t
     /\ \A j \in JobIds : jobs'[j] # jobs[j] => (CancelWrite /\ cancelPc = j)]_vars

\* a DELETE of a row that exists and is QUEUED was answered 404, and a GET of
\* a row that exists was answered 404
C40_Witness ==
  /\ cancelResp.status = 404
  /\ cancelResp.jobId \in JobIds
  /\ jobs[cancelResp.jobId].status = "QUEUED"
  /\ getResp.status = 404
  /\ getResp.jobId \in JobIds

====
